---- MODULE Spec2Model ----
(***************************************************************************)
(* A model of the price scraper of tylermyeo/reflex-template:             *)
(*   scrapers/main_scraper.py   (run_scraper and what it calls)            *)
(*   scrapers/regions.py        (resolve_region_page_id)                   *)
(*   scrapers/notion_client.py  (push_price_data)                          *)
(*                                                                         *)
(* Conventions.  A Python str is a sequence of one-character strings.      *)
(* Optional[T] is <<>> (None) or <<x>> (a value x).  A float that a price  *)
(* text can denote is an exact decimal [neg, mant, scale] = (-1)^neg *     *)
(* mant / 10^scale, normalised so that equal numbers are equal records.    *)
(***************************************************************************)
EXTENDS Integers, Sequences, FiniteSets, TLC

(***************************************************************************)
(* Optional values                                                         *)
(***************************************************************************)
None == <<>>

Some(x) == <<x>>

IsNone(o) == o = <<>>

Val(o) == o[1]

\* F applied to the value of x, which is computed once
Let1(x, F(_)) == CHOOSE y \in {F(v) : v \in {x}} : TRUE

(***************************************************************************)
(* Strings                                                                 *)
(***************************************************************************)
DigitChars == <<"0", "1", "2", "3", "4", "5", "6", "7", "8", "9">>

UpperChars == <<"A", "B", "C", "D", "E", "F", "G", "H", "I", "J", "K", "L", "M",
                "N", "O", "P", "Q", "R", "S", "T", "U", "V", "W", "X", "Y", "Z">>

LowerChars == <<"a", "b", "c", "d", "e", "f", "g", "h", "i", "j", "k", "l", "m",
                "n", "o", "p", "q", "r", "s", "t", "u", "v", "w", "x", "y", "z">>

Range(s) == {s[i] : i \in DOMAIN s}

IsDigit(c) == c \in Range(DigitChars)

IsSpace(c) == c = " "

\* \w of the re module: letters, digits and the underscore
IsWord(c) == c \in Range(DigitChars) \cup Range(UpperChars) \cup Range(LowerChars) \cup {"_"}

IndexIn(seq, c) == CHOOSE i \in DOMAIN seq : seq[i] = c

DigitVal(c) == IndexIn(DigitChars, c) - 1

LowerChar(c) == IF c \in Range(UpperChars) THEN LowerChars[IndexIn(UpperChars, c)] ELSE c

UpperChar(c) == IF c \in Range(LowerChars) THEN UpperChars[IndexIn(LowerChars, c)] ELSE c

\* str.lower
Lower(s) == [i \in DOMAIN s |-> LowerChar(s[i])]

\* str.upper
Upper(s) == [i \in DOMAIN s |-> UpperChar(s[i])]

\* s[a-1:b] of Python, as a sequence
Slice(s, a, b) == IF a > b THEN <<>> ELSE SubSeq(s, a, b)

RECURSIVE LStrip(_)
LStrip(s) == IF s # <<>> /\ IsSpace(Head(s)) THEN LStrip(Tail(s)) ELSE s

RECURSIVE RStrip(_)
RStrip(s) == IF s # <<>> /\ IsSpace(s[Len(s)]) THEN RStrip(Slice(s, 1, Len(s) - 1)) ELSE s

\* str.strip
Strip(s) == RStrip(LStrip(s))

\* re.sub(r"[...]", "", s) for a character class, and str.replace(c, "")
RemoveChars(s, cs) == SelectSeq(s, LAMBDA c : c \notin cs)

\* str.replace(a, b) for single characters
ReplaceChar(s, a, b) == [i \in DOMAIN s |-> IF s[i] = a THEN b ELSE s[i]]

AllDigits(s) == \A i \in DOMAIN s : IsDigit(s[i])

HasDigit(s) == \E i \in DOMAIN s : IsDigit(s[i])

Contains(s, c) == \E i \in DOMAIN s : s[i] = c

\* t in s, for strings
HasSubstring(s, t) ==
    \E a \in 1..(Len(s) - Len(t) + 1) : SubSeq(s, a, a + Len(t) - 1) = t

(***************************************************************************)
(* Numbers: float(str) and the decimals it yields                          *)
(***************************************************************************)
\* the number the first n digits of ds denote
RECURSIVE NatOfPrefix(_, _)
NatOfPrefix(ds, n) == IF n = 0 THEN 0 ELSE 10 * NatOfPrefix(ds, n - 1) + DigitVal(ds[n])

NatOf(ds) == NatOfPrefix(ds, Len(ds))

RECURSIVE Normalise(_)
Normalise(d) ==
    IF d.mant = 0 THEN [neg |-> FALSE, mant |-> 0, scale |-> 0]
    ELSE IF d.scale > 0 /\ d.mant % 10 = 0
         THEN Normalise([neg |-> d.neg, mant |-> d.mant \div 10, scale |-> d.scale - 1])
         ELSE d

\* the literal 0.0
Zero == [neg |-> FALSE, mant |-> 0, scale |-> 0]

\* float(s): optional sign, digits with at most one ".", at least one digit;
\* anything else raises ValueError, which every caller turns into None.
\* (Exponents, underscores, "nan" and "inf" are outside the texts modelled.)
FloatOfStripped(t) ==
    LET signed == t # <<>> /\ Head(t) \in {"+", "-"}
        body == IF signed THEN Tail(t) ELSE t
        dots == {i \in DOMAIN body : body[i] = "."}
        digits == RemoveChars(body, {"."})
    IN  IF digits # <<>> /\ AllDigits(digits) /\ Cardinality(dots) <= 1
        THEN LET scale == IF dots = {} THEN 0 ELSE Len(body) - (CHOOSE i \in dots : TRUE)
             IN  Some(Normalise([neg |-> signed /\ Head(t) = "-", mant |-> NatOf(digits), scale |-> scale]))
        ELSE None

float(s) == Let1(Strip(s), FloatOfStripped)

(***************************************************************************)
(* main_scraper.parse_price                                                *)
(***************************************************************************)
\* the characters of [$€£¥₹]; the non-ASCII signs are written by name
CurrencySymbols == {"$", "euro", "pound", "yen", "rupee"}

\* the alternatives of \b(USD|EUR|GBP|CAD|AUD)\b
PriceCodes == {<<"U", "S", "D">>, <<"E", "U", "R">>, <<"G", "B", "P">>,
               <<"C", "A", "D">>, <<"A", "U", "D">>}

\* the pattern \b(code)\b, flags=re.I, matches at position i of s
CodeAt(s, i) ==
    /\ i + 2 <= Len(s)
    /\ Upper(SubSeq(s, i, i + 2)) \in PriceCodes
    /\ (i = 1 \/ ~IsWord(s[i - 1]))
    /\ (i + 3 > Len(s) \/ ~IsWord(s[i + 3]))

RECURSIVE RemoveCodesFrom(_, _)
RemoveCodesFrom(s, i) ==
    IF i > Len(s) THEN <<>>
    ELSE IF CodeAt(s, i) THEN RemoveCodesFrom(s, i + 3)
         ELSE <<s[i]>> \o RemoveCodesFrom(s, i + 1)

\* re.sub(r"\b(USD|EUR|GBP|CAD|AUD)\b", "", s, flags=re.I)
RemoveCodes(s) == RemoveCodesFrom(s, 1)

\* every comma-separated group after the first has exactly three digits
RECURSIVE ThousandsGroups(_)
ThousandsGroups(s) ==
    \/ s = <<>>
    \/ /\ Len(s) >= 4
       /\ s[1] = ","
       /\ AllDigits(SubSeq(s, 2, 4))
       /\ ThousandsGroups(Slice(s, 5, Len(s)))

\* re.search(r"^\d{1,3}(,\d{3})*(\.\d+)?$", s)
MatchesThousands(s) ==
    LET dots == {i \in DOMAIN s : s[i] = "."}
        cut == IF dots = {} THEN Len(s) + 1 ELSE CHOOSE i \in dots : \A j \in dots : i <= j
        int == Slice(s, 1, cut - 1)
        frac == Slice(s, cut + 1, Len(s))
        commas == {i \in DOMAIN int : int[i] = ","}
        first == IF commas = {} THEN Len(int) + 1 ELSE CHOOSE i \in commas : \A j \in commas : i <= j
    IN  /\ first - 1 \in 1..3
        /\ AllDigits(Slice(int, 1, first - 1))
        /\ ThousandsGroups(Slice(int, first, Len(int)))
        /\ (dots # {} => frac # <<>> /\ AllDigits(frac))

\* re.search(r"^\d+,\d{2}$", s)
MatchesCommaDecimal(s) ==
    /\ Len(s) >= 4
    /\ s[Len(s) - 2] = ","
    /\ AllDigits(SubSeq(s, Len(s) - 1, Len(s)))
    /\ AllDigits(SubSeq(s, 1, Len(s) - 3))

\* parse_price(raw) of main_scraper.py: Optional[float]
\* lines 154-162, on the text left by lines 151-153
ParseCleaned(cleaned) ==
    float(IF MatchesThousands(cleaned) THEN RemoveChars(cleaned, {","})
          ELSE IF MatchesCommaDecimal(cleaned) THEN ReplaceChar(cleaned, ",", ".")
          ELSE cleaned)

parse_price(raw) ==
    IF raw = <<>> THEN None
    ELSE Let1(RemoveChars(Let1(RemoveChars(raw, CurrencySymbols), RemoveCodes), {" ", ","}),
              ParseCleaned)

\* pd.to_numeric(re.sub(r"[^\d.]", "", price_raw), errors="coerce"), then
\* float(amount) if pd.notna(amount) else None
to_numeric_digits(price_raw) ==
    float(SelectSeq(price_raw, LAMBDA c : IsDigit(c) \/ c = "."))

(***************************************************************************)
(* chatgpt_scraper: parse_price, extract_price_from_html, extract_currency *)
(***************************************************************************)
\* the characters of [$€£¥₹₽₪₩¢], the non-ASCII signs written by name
ChatCurrencySymbols == {"$", "euro", "pound", "yen", "rupee", "ruble", "shekel", "won", "cent"}

\* the three-letter alternatives of line 711; "Rp" is the eighteenth
ChatPriceCodes ==
    {<<"U", "S", "D">>, <<"E", "U", "R">>, <<"G", "B", "P">>, <<"C", "A", "D">>,
     <<"A", "U", "D">>, <<"I", "N", "R">>, <<"B", "R", "L">>, <<"J", "P", "Y">>,
     <<"M", "X", "N">>, <<"A", "R", "S">>, <<"T", "R", "Y">>, <<"P", "L", "N">>,
     <<"Z", "A", "R">>, <<"N", "G", "N">>, <<"P", "H", "P">>, <<"I", "D", "R">>,
     <<"T", "H", "B">>}

\* the length of the match of \b(USD|...|Rp)\b, flags=re.I, at position i of s; 0: none
ChatCodeLen(s, i) ==
    LET bounded(n) == /\ i + n - 1 <= Len(s)
                      /\ (i = 1 \/ ~IsWord(s[i - 1]))
                      /\ (i + n > Len(s) \/ ~IsWord(s[i + n]))
    IN  IF bounded(3) /\ Upper(SubSeq(s, i, i + 2)) \in ChatPriceCodes THEN 3
        ELSE IF bounded(2) /\ Upper(SubSeq(s, i, i + 1)) = <<"R", "P">> THEN 2
        ELSE 0

RECURSIVE ChatRemoveCodesFrom(_, _)
ChatRemoveCodesFrom(s, i) ==
    IF i > Len(s) THEN <<>>
    ELSE IF ChatCodeLen(s, i) > 0 THEN ChatRemoveCodesFrom(s, i + ChatCodeLen(s, i))
         ELSE <<s[i]>> \o ChatRemoveCodesFrom(s, i + 1)

\* re.sub(r"R\$", "", s)
RECURSIVE RemoveRealMarkFrom(_, _)
RemoveRealMarkFrom(s, i) ==
    IF i > Len(s) THEN <<>>
    ELSE IF i < Len(s) /\ s[i] = "R" /\ s[i + 1] = "$" THEN RemoveRealMarkFrom(s, i + 2)
         ELSE <<s[i]>> \o RemoveRealMarkFrom(s, i + 1)

\* re.search(r"\d+,\d{2}$", s)
EndsCommaDecimal(s) ==
    /\ Len(s) >= 4
    /\ IsDigit(s[Len(s)]) /\ IsDigit(s[Len(s) - 1])
    /\ s[Len(s) - 2] = ","
    /\ IsDigit(s[Len(s) - 3])

\* lines 714-725, on the text left by lines 709-712
ChatParseCleaned(cleaned) ==
    float(IF EndsCommaDecimal(cleaned)
          THEN ReplaceChar(RemoveChars(cleaned, {"."}), ",", ".")
          ELSE RemoveChars(cleaned, {","}))

\* parse_price(raw) of chatgpt_scraper.py: Optional[float]
chat_parse_price(raw) ==
    IF raw = <<>> THEN None
    ELSE Let1(SelectSeq(ChatRemoveCodesFrom(RemoveChars(RemoveRealMarkFrom(raw, 1),
                                                         ChatCurrencySymbols), 1),
                        LAMBDA c : ~IsSpace(c)),
              ChatParseCleaned)

\* the last index of the longest run of [\d,] that starts at a; a - 1: none
RECURSIVE NumRun(_, _)
NumRun(s, a) ==
    IF a <= Len(s) /\ (IsDigit(s[a]) \/ s[a] = ",") THEN NumRun(s, a + 1) ELSE a - 1

\* the last index of the match of [\d,]+(?:\.\d{2})? at a, taken greedily; 0: none
NumEnd(s, a) ==
    LET e == NumRun(s, a)
    IN  IF e < a THEN 0
        ELSE IF e + 3 <= Len(s) /\ s[e + 1] = "." /\ IsDigit(s[e + 2]) /\ IsDigit(s[e + 3])
             THEN e + 3
             ELSE e

\* the first index from a on that holds no whitespace
RECURSIVE SkipSpace(_, _)
SkipSpace(s, a) == IF a <= Len(s) /\ IsSpace(s[a]) THEN SkipSpace(s, a + 1) ELSE a

\* s holds c at index a
At(s, a, c) == a <= Len(s) /\ s[a] = c

\* s holds the string w from index a on
StartsAt(s, a, w) == a + Len(w) - 1 <= Len(s) /\ SubSeq(s, a, a + Len(w) - 1) = w

\* The price patterns of extract_price_from_html, lines 684-693: the last
\* index of group 1 of a match that starts at a (0: no match at a).  Only
\* the longest run of [\d,] can be followed by what the patterns ask for, so
\* backtracking is over the optional (?:\.\d{2}) alone.
PricePattern(n, s, a) ==
    LET sign(k, c) == IF At(s, k, c) /\ NumEnd(s, SkipSpace(s, k + 1)) > 0
                      THEN NumEnd(s, SkipSpace(s, k + 1)) ELSE 0
        \* the number at a, followed by after(e) for its end e
        number(after(_)) ==
            IF NumEnd(s, a) = 0 THEN 0
            ELSE IF after(NumEnd(s, a)) THEN NumEnd(s, a)
            ELSE IF after(NumRun(s, a)) THEN NumRun(s, a)
            ELSE 0
        symbol(e) == \E c \in {"euro", "pound", "rupee", "yen", "ruble"} : At(s, SkipSpace(s, e + 1), c)
        month(e) == /\ At(s, SkipSpace(s, e + 1), "/")
                    /\ StartsAt(s, SkipSpace(s, SkipSpace(s, e + 1) + 1), <<"m", "o", "n", "t", "h">>)
    IN  CASE n = 1 -> IF At(s, a, "$") THEN NumEnd(s, a + 1) ELSE 0
          [] n = 2 -> IF number(symbol) = 0 THEN 0 ELSE SkipSpace(s, number(symbol) + 1)
          [] n = 3 -> sign(a, "euro")
          [] n = 4 -> sign(a, "pound")
          [] n = 5 -> IF At(s, a, "rupee") /\ NumRun(s, SkipSpace(s, a + 1)) >= SkipSpace(s, a + 1)
                      THEN NumRun(s, SkipSpace(s, a + 1)) ELSE 0
          [] n = 6 -> IF At(s, a, "R") THEN sign(a + 1, "$") ELSE 0
          [] n = 7 -> IF /\ a + 3 <= Len(s)
                         /\ \A k \in a..(a + 2) : s[k] \in Range(UpperChars)
                         /\ IsSpace(s[a + 3])
                         /\ NumEnd(s, SkipSpace(s, a + 3)) > 0
                      THEN NumEnd(s, SkipSpace(s, a + 3)) ELSE 0
          [] n = 8 -> number(month)

\* re.search(pattern n, text): where the leftmost match starts; 0: no match
SearchStart(n, text) ==
    LET starts == {a \in 1..Len(text) : PricePattern(n, text, a) > 0}
    IN  IF starts = {} THEN 0 ELSE CHOOSE a \in starts : \A b \in starts : a <= b

\* extract_price_from_html, lines 679-699, on text = plus_section.get_text():
\* group 1 of the first pattern that matches, stripped; "" for None
extract_price_from_html(text) ==
    LET matching == {n \in 1..8 : SearchStart(n, text) > 0}
    IN  IF matching = {} THEN <<>>
        ELSE LET n == CHOOSE m \in matching : \A k \in matching : m <= k
                 a == SearchStart(n, text)
             IN  Strip(SubSeq(text, a, PricePattern(n, text, a)))

\* the code of a currency, as a str
Code(a, b, c) == <<a, b, c>>

\* extract_currency(raw), lines 728-779
extract_currency(raw) ==
    LET has(w) == HasSubstring(raw, w)
        sign(c) == Contains(raw, c)
    IN  IF raw = <<>> THEN Code("U", "S", "D")
        ELSE IF /\ Len(raw) >= 5
                /\ \A k \in 1..3 : raw[k] \in Range(UpperChars)
                /\ IsSpace(raw[4])
                /\ NumRun(raw, SkipSpace(raw, 4)) >= SkipSpace(raw, 4)
        THEN SubSeq(raw, 1, 3)
        ELSE IF has(<<"R", "$">>) THEN Code("B", "R", "L")
        ELSE IF sign("$")
        THEN IF has(Code("C", "A", "D")) THEN Code("C", "A", "D")
             ELSE IF has(Code("A", "U", "D")) THEN Code("A", "U", "D")
             ELSE IF has(Code("M", "X", "N")) THEN Code("M", "X", "N")
             ELSE IF has(Code("A", "R", "S")) THEN Code("A", "R", "S")
             ELSE Code("U", "S", "D")
        ELSE IF sign("euro") \/ has(Code("E", "U", "R")) THEN Code("E", "U", "R")
        ELSE IF sign("pound") \/ has(Code("G", "B", "P")) THEN Code("G", "B", "P")
        ELSE IF sign("rupee") \/ has(Code("I", "N", "R")) THEN Code("I", "N", "R")
        ELSE IF has(Code("B", "R", "L")) THEN Code("B", "R", "L")
        ELSE IF sign("yen") \/ has(Code("J", "P", "Y")) THEN Code("J", "P", "Y")
        ELSE IF sign("lira") \/ has(Code("T", "R", "Y")) THEN Code("T", "R", "Y")
        ELSE IF has(<<"z", "l-stroke">>) \/ has(Code("P", "L", "N")) THEN Code("P", "L", "N")
        ELSE IF has(Code("Z", "A", "R")) THEN Code("Z", "A", "R")
        ELSE IF sign("naira") \/ has(Code("N", "G", "N")) THEN Code("N", "G", "N")
        ELSE IF sign("peso") \/ has(Code("P", "H", "P")) THEN Code("P", "H", "P")
        ELSE IF has(<<"R", "p">>) \/ has(Code("I", "D", "R")) THEN Code("I", "D", "R")
        ELSE IF sign("baht") \/ has(Code("T", "H", "B")) THEN Code("T", "H", "B")
        ELSE Code("U", "S", "D")

\* scrape_region, lines 873-880: the period in standard names
chat_period(period_raw) ==
    LET period == Strip(period_raw)
        period_lower == Lower(period)
    IN  IF \/ period = <<>>
           \/ HasSubstring(period_lower, <<"m", "o", "n", "t", "h">>)
           \/ HasSubstring(period_lower, <<"/", "m", "o">>)
        THEN <<"M", "o", "n", "t", "h", "l", "y">>
        ELSE IF \/ HasSubstring(period_lower, <<"y", "e", "a", "r">>)
                \/ HasSubstring(period_lower, <<"a", "n", "n", "u", "a", "l">>)
        THEN <<"A", "n", "n", "u", "a", "l">>
        ELSE IF HasSubstring(period_lower, <<"w", "e", "e", "k">>)
        THEN <<"W", "e", "e", "k", "l", "y">>
        ELSE period

(***************************************************************************)
(* regions.resolve_region_page_id                                          *)
(***************************************************************************)
\* dict.get(k): Optional value
Get(m, k) == IF k \in DOMAIN m THEN Some(m[k]) ELSE None

\* a or b on Optional page ids (a page id is a non-empty string)
OrElse(a, b) == IF IsNone(a) THEN b ELSE a

\* a table without entries
NoOverrides == <<>>

\* regions.py lines 30-38
_VALUE_TO_CANONICAL_OVERRIDES ==
    (<<"u", "k">> :> <<"G", "B">>)
    @@ (<<"a", "f", "r", "i", "c", "a">> :> <<"X", "F">>)
    @@ (<<"l", "a">> :> <<"X", "L">>)
    @@ (<<"c", "i", "s", "_", "e", "n">> :> <<"C", "I", "S">>)
    @@ (<<"c", "i", "s", "_", "r", "u">> :> <<"C", "I", "S">>)
    @@ (<<"m", "e", "n", "a", "_", "a", "r">> :> <<"M", "E", "N", "A">>)
    @@ (<<"m", "e", "n", "a", "_", "e", "n">> :> <<"M", "E", "N", "A">>)

\* a page of the Regions DB: its "Region Code" title, its id, its "Aliases"
RegionPage(code, id, aliases) == [code |-> code, id |-> id, aliases |-> aliases]

\* fetch_regions_maps for a Regions DB holding the given pages, no two of
\* which share a code or an alias
fetch_regions_maps(db_pages) ==
    LET code(p) == Upper(Strip(p.code))
        names(p) == {Lower(code(p))} \cup {Lower(Strip(a)) : a \in p.aliases}
    IN  [codes |-> [c \in {code(p) : p \in db_pages} |->
                      (CHOOSE p \in db_pages : code(p) = c).id],
         aliases |-> [a \in UNION {names(p) : p \in db_pages} |->
                        (CHOOSE p \in db_pages : a \in names(p)).id]]

\* the alias table asked before the code table
AliasFirst(direct, alias) == OrElse(alias, direct)

\* regions.py lines 232-240: the direct code match, then the alias match
CodeFirst(direct, alias) == OrElse(direct, alias)

\* the part of the token before its first "_", uppercased
PrefixBeforeSeparator(lower) ==
    Upper(SubSeq(lower, 1, (CHOOSE n \in 1..Len(lower) :
                               lower[n] = "_" /\ \A m \in 1..(n - 1) : lower[m] # "_") - 1))

\* regions.py line 244: maybe = lower[:2].upper()
FirstTwo(lower) == Upper(SubSeq(lower, 1, 2))

\* resolve_region_page_id(region_value, code_to_page_id, alias_to_page_id)
resolve_region_page_id(region_value, codes, aliases) ==
    IF IsNone(region_value) \/ Val(region_value) = <<>> THEN None
    ELSE LET raw == Strip(Val(region_value))
             lower == Lower(raw)
             canonical_override == Get(_VALUE_TO_CANONICAL_OVERRIDES, lower)
         IN  IF raw = <<>> THEN None
             ELSE IF ~IsNone(canonical_override)
             THEN OrElse(Get(codes, Val(canonical_override)),
                         Get(aliases, Lower(Val(canonical_override))))
             ELSE IF ~IsNone(CodeFirst(Get(codes, Upper(raw)), Get(aliases, lower)))
             THEN CodeFirst(Get(codes, Upper(raw)), Get(aliases, lower))
             ELSE IF Len(lower) >= 2 /\ Contains(lower, "_")
             THEN Get(codes, FirstTwo(lower))
             ELSE None

(***************************************************************************)
(* Bounds and the inputs of a run                                          *)
(***************************************************************************)
\* products in the catalogue
NumProducts == 2

\* region tokens of one product
MaxRegions == 2

\* fetch_with_retry(url, use_js, max_retries=3)
max_retries == 3

US == <<"U", "S">>

GB == <<"G", "B">>

\* a token no table knows
ZZ == <<"z", "z">>

\* a token of the override table
UK == <<"u", "k">>

TokenList == <<US, ZZ, UK>>

\* the first n region tokens
RegionList(n) == [k \in 1..n |-> TokenList[((k - 1) % Len(TokenList)) + 1]]

SwitcherTypes == {"none", "url-param", "dropdown", "button"}

\* the products load_products can return: region_config of _page_to_product
ProductConfigs ==
    {[rendering |-> rd,
      region_config |-> [type |-> t, regions |-> RegionList(n), url_pattern |-> up, selector |-> sel]] :
        rd \in {"static", "js"}, t \in SwitcherTypes, n \in 0..MaxRegions,
        up \in BOOLEAN, sel \in BOOLEAN}

\* one product of each shape the orchestrator distinguishes
Representative(p) ==
    LET c == p.region_config
        n == Len(c.regions)
    IN  \/ c.type = "none" /\ ~c.url_pattern /\ ~c.selector /\ n <= 1 /\ (p.rendering = "static" \/ n = 0)
        \/ c.type = "url-param" /\ ~c.selector /\ p.rendering = "static" /\ (c.url_pattern \/ n = 1)
        \/ c.type = "dropdown" /\ ~c.url_pattern /\ p.rendering = "js" /\ n >= 1 /\ (c.selector \/ n = 1)
        \/ c.type = "button" /\ ~c.url_pattern /\ p.rendering = "js" /\ n = 1 /\ c.selector

Catalogues ==
    UNION {[1..k -> {p \in ProductConfigs : Representative(p)}] : k \in 0..NumProducts}

\* the Regions DB as ensure_regions_cache returns it: (code_to_page_id, alias_to_page_id)
RegionsDB ==
    [codes |-> (US :> "page-US") @@ (GB :> "page-GB"),
     aliases |-> (Lower(US) :> "page-US") @@ (Lower(GB) :> "page-GB")]

\* fetch_regions_maps without NOTION_REGIONS_DB_ID: ({}, {})
EmptyRegionsDB == [codes |-> <<>>, aliases |-> <<>>]

\* what the selectors find on a fetched page: the texts of the price, currency
\* and period elements ("" when the selector matches nothing) and the text of
\* the period element's parent
Page(price, currency, period, parent) ==
    [price |-> price, currency |-> currency, period |-> period, parent |-> parent]

PerMonth == <<"/", "m", "o", "n", "t", "h">>

\* <span id="price">$12.99</span><div id="period">/month</div>
PricedPage == Page(<<"$", "1", "2", ".", "9", "9">>, <<>>, PerMonth,
                   <<"$", "1", "2", ".", "9", "9">> \o PerMonth)

\* a page whose price element reads "Free"
FreePage == Page(<<"F", "r", "e", "e">>, <<>>, <<>>, <<>>)

Pages == {PricedPage, FreePage}

(***************************************************************************)
(* State of one run of run_scraper                                         *)
(***************************************************************************)
VARIABLES
    products,          \* load_products(): the catalogue of this run
    site_pages,        \* the page contents the sites can serve
    has_pandas,        \* whether "import pandas" succeeds
    has_playwright,    \* whether "from playwright.sync_api import ..." succeeds
    regions_db,        \* the tables ensure_regions_cache can return
    pc,                \* where run_scraper is
    i,                 \* index of the current product (enumerate(products), from 1)
    ri,                \* index of the current region of the product; 0: no region
    attempt,           \* loop variable of fetch_with_retry
    last_error,        \* fetch_with_retry: Optional, the attempt whose exception it holds
    results,           \* scrape_product_all_regions: results, then data_list
    idx,               \* position of "for data in data_list"
    code_to_page_id,   \* run_scraper: the tables loaded at the start
    alias_to_page_id,
    success_count,
    failure_count,
    log_lines,
    log_file,          \* Optional: the lines written to log_path
    pushed,            \* history: the calls of push_price_data, in order
    events,            \* history: what happened to each product/region pair
    mode,              \* chatgpt_scraper.scrape_region: the fetcher to use
    visible,           \* scrape_region: run the patchright browser visibly
    country_code,      \* scrape_region: the region to scrape
    chat_page,         \* what the pricing page holds once it is served
    challenge,         \* whether the site is serving the Cloudflare challenge page
    cpc,               \* where scrape_region or discover_for_product is
    waited,            \* the seconds the challenge poll loop has slept
    is_cloudflare,     \* the loop's last classification of the page
    html,              \* Optional: what the fetcher returned
    chat_price_raw,    \* scrape_region: price_raw, the price text in hand
    pattern_calls,     \* history: the calls of extract_price_from_html
    selectors_price,   \* discover_for_product: Gemini returned a price selector
    price_val,         \* discover_for_product: test_vals.get("price", "")
    vision_calls,      \* history: the calls of discover_selectors_with_vision
    chat_pushed,       \* history: the calls of push_price_data by scrape_region
    chat_result,       \* Optional: what scrape_region or discover_for_product returned
    blocked,           \* whether the site answers with an access-denied page
    turnstile_locators,\* the candidate selectors that match in the Turnstile frame
    clicked_turnstile, \* fetch_page_with_patchright: a click has been delivered
    attempted,         \* history: the last challenge poll tried the click
    tried,             \* history: the candidate selectors that poll went through
    clicked_with,      \* history: Optional, the selector or the widget area clicked
    polls,             \* history: the turns of the poll loop
    fetch_use_js,      \* fetch_with_retry called on its own: use_js
    fetch_max_retries, \* fetch_with_retry called on its own: max_retries
    lpc,               \* where that call, or scrape_with_region_interaction, is
    sessions,          \* the browser and request sessions that are open
    tiers_used,        \* history: the fetcher each attempt called
    delays,            \* history: the backoff sleeps, in seconds
    fetched,           \* Optional: the page fetch_with_retry returned
    opened,            \* history: how many sessions have been opened so far
    pause_due,         \* history: a fetch has ended and no pause has been taken since
    cache_ok,          \* regions_page_ids.json exists and holds a non-empty code table
    cache_log,         \* history: the reads and writes of that file, the fetches of the Regions DB
    target_no,         \* chatgpt_scraper.main: position in target_regions, from 1
    isatty,            \* sys.stdout.isatty()
    spc,               \* where the thread that entered "with spinner(...)" is
    tpc,               \* where the thread running spin() is
    stop,              \* the threading.Event of the spinner: set or not
    spin_i,            \* i of spin(), as the index i % len(chars) it is used for
    block_outcome,     \* how the block under the spinner ended
    joined,            \* history: how t.join(timeout=0.5) returned
    last_write         \* history: Optional, the last write to sys.stdout

vars == <<products, site_pages, has_pandas, has_playwright, regions_db, pc, i, ri, attempt,
          last_error, results, idx,
          code_to_page_id, alias_to_page_id, success_count, failure_count, log_lines,
          log_file, pushed, events,
          mode, visible, country_code, chat_page, challenge, cpc, waited, is_cloudflare, html,
          chat_price_raw, pattern_calls, selectors_price, price_val, vision_calls, chat_pushed,
          chat_result, blocked, turnstile_locators, clicked_turnstile, attempted, tried,
          clicked_with, polls,
          fetch_use_js, fetch_max_retries, lpc, sessions, tiers_used, delays, fetched, opened,
          pause_due, cache_ok, cache_log, target_no,
          isatty, spc, tpc, stop, spin_i, block_outcome, joined, last_write>>

\* the state of a "with spinner(...)" block followed step by step
spin_vars == <<isatty, spc, tpc, stop, spin_i, block_outcome, joined, last_write>>

\* the regions cache and the loop of chatgpt_scraper.main over its regions
cache_vars == <<cache_ok, cache_log, target_no>>

\* the state of a call of fetch_with_retry followed step by step
ladder_vars == <<fetch_use_js, fetch_max_retries, lpc, sessions, tiers_used, delays, fetched, opened>>

\* the state of chatgpt_scraper and selector_discovery, which run_scraper leaves alone
chat_vars == <<mode, visible, country_code, chat_page, challenge, cpc, waited, is_cloudflare,
               html, chat_price_raw, pattern_calls, selectors_price, price_val, vision_calls,
               chat_pushed, chat_result, blocked, turnstile_locators, clicked_turnstile,
               attempted, tried, clicked_with, polls>>

\* the state of run_scraper, which chatgpt_scraper and selector_discovery leave alone
run_vars == <<pc, i, ri, attempt, last_error, results, idx, code_to_page_id, alias_to_page_id,
              success_count, failure_count, log_lines, log_file, pushed, events, pause_due>>

\* the inputs of the run, which no step changes
inputs == <<products, site_pages, has_pandas, has_playwright, regions_db>>

product == products[i]

region_config == product.region_config

regions == region_config.regions

switcher_type == region_config.type

\* the region argument of the scrape in progress: None or the token
region == IF ri = 0 THEN None ELSE Some(regions[ri])

\* a or b on str
OrStr(a, b) == IF a = <<>> THEN b ELSE a

USD == <<"U", "S", "D">>

Unknown == <<"U", "n", "k", "n", "o", "w", "n">>

\* price_raw after the period-parent fallback of scrape_single_region
PriceRaw(page, parent_fallback) ==
    IF parent_fallback /\ page.price = <<>> /\ page.period # <<>> /\ HasDigit(page.parent)
    THEN page.parent
    ELSE page.price

\* amount = parse_price(price_raw), then the pandas fallback
Amount(price_raw, pandas) ==
    Let1(parse_price(price_raw),
         LAMBDA amount : IF IsNone(amount) /\ price_raw # <<>> /\ pandas
                         THEN to_numeric_digits(price_raw)
                         ELSE amount)

\* currency = (currency_raw or "USD").strip() or "USD"; currency.replace(",", "").strip()
Currency(currency_raw) ==
    Strip(RemoveChars(OrStr(Strip(OrStr(currency_raw, USD)), USD), {","}))

\* period = (period_raw or "").strip() or "Unknown"; period.replace(",", "").strip()
Period(period_raw) ==
    Strip(RemoveChars(OrStr(Strip(period_raw), Unknown), {","}))

\* the data dict both scrape functions build from the fetched page; price_raw
\* is the local variable the amount was parsed from, kept for the properties
Data(page, parent_fallback, reg, r, pandas) ==
    [price_raw |-> PriceRaw(page, parent_fallback),
     amount |-> Let1(PriceRaw(page, parent_fallback), LAMBDA price_raw : Amount(price_raw, pandas)),
     currency |-> Currency(page.currency),
     period |-> Period(page.period),
     region |-> reg,
     r |-> r]

LogLine(kind, p) == [kind |-> kind, p |-> p]

\* what happened to the pair in hand; n: the fetch attempts made, where they count
\* err: the exception scrape_single_region reports in its error message
Event(kind, n) == [p |-> i, r |-> ri, kind |-> kind, n |-> n, err |-> None]

\* one call of push_price_data and whether it returned (accepted) or raised
Push(p, r, amount, currency, period, success, notes, region_page_id, accepted) ==
    [p |-> p, r |-> r, amount |-> amount, currency |-> currency, period |-> period,
     success |-> success, notes |-> notes, region_page_id |-> region_page_id,
     accepted |-> accepted]

\* run_scraper lines 426-436: the product-level failure observation
FailurePush(p, err_msg, accepted) ==
    Push(p, 0, Zero, <<>>, <<>>, FALSE, Some(err_msg), None, accepted)

\* the same call without notes=
ParseFailurePushNoNote(p, data, region_page_id, accepted) ==
    Push(p, data.r, Zero, data.currency, data.period, FALSE, None, region_page_id, accepted)

\* run_scraper lines 450-461: the observation for a price that did not parse
ParseFailurePush(p, data, region_page_id, accepted) ==
    Push(p, data.r, Zero, data.currency, data.period, FALSE,
         Some("Could not parse price"), region_page_id, accepted)

\* run_scraper lines 467-476
SuccessPush(p, data, region_page_id, accepted) ==
    Push(p, data.r, Val(data.amount), data.currency, data.period, TRUE,
         None, region_page_id, accepted)

\* the message of an exception whose str() is empty
EmptyMessage == ""

\* scrape_product, line 387: the message of a product without data
NoDataMessage == "No data extracted"

TypeOK ==
    /\ pc \in {"start", "product", "fetch", "interact", "single_extract",
               "interaction_extract", "scraped", "push", "done", "returned", "raised", "interrupted"}
    /\ i \in 0..(Len(products) + 1)
    /\ ri \in 0..MaxRegions
    /\ attempt \in 0..max_retries
    /\ success_count \in Nat
    /\ failure_count \in Nat

(***************************************************************************)
(* Initial states                                                          *)
(***************************************************************************)
\* no read, fetch or write yet
NoLoads == [reads |-> 0, fetches |-> 0, writes |-> 0]

\* the run begins, with or without a usable cache file
CacheStart(oks) ==
    /\ cache_ok \in oks
    /\ cache_log = NoLoads
    /\ target_no = 1

Logged(reads, fetches, writes) ==
    cache_log' = [reads |-> cache_log.reads + reads,
                  fetches |-> cache_log.fetches + fetches,
                  writes |-> cache_log.writes + writes]

\* regions.ensure_regions_cache() returns the tables db: lines 152-163
EnsureReturns(db) ==
    \/ /\ cache_ok                                \* _load_cache(): the cached tables
       /\ db.codes # <<>>
       /\ Logged(1, 0, 0)
       /\ cache_ok' = TRUE
    \/ /\ ~cache_ok                               \* fetch_regions_maps(), _save_cache()
       /\ Logged(1, 1, 1)
       /\ cache_ok' = (db.codes # <<>>)

\* regions.ensure_regions_cache() raises: in fetch_regions_maps, line 161, or
\* in _save_cache, line 162, which may leave a file that does not load
EnsureRaises ==
    /\ ~cache_ok
    /\ \E written \in 0..1 : Logged(1, 1, written)
    /\ cache_ok' = FALSE

InitRun ==
    /\ pc = "start"
    /\ i = 0
    /\ ri = 0
    /\ attempt = 0
    /\ last_error = None
    /\ results = <<>>
    /\ idx = 0
    /\ code_to_page_id = <<>>
    /\ alias_to_page_id = <<>>
    /\ success_count = 0
    /\ failure_count = 0
    /\ log_lines = <<>>
    /\ log_file = None
    /\ pushed = <<>>
    /\ events = <<>>
    /\ pause_due = FALSE

\* spinner before it is entered: no Event, no thread
SpinStart ==
    /\ tpc = "none"
    /\ stop = FALSE
    /\ spin_i = 0
    /\ block_outcome = "running"
    /\ joined = "no"
    /\ last_write = None

\* a process followed without its spinner
SpinIdle ==
    /\ isatty = FALSE
    /\ spc = "idle"
    /\ SpinStart

\* chatgpt_scraper and selector_discovery before they are called
ChatStart ==
    /\ challenge \in BOOLEAN
    /\ waited = 0
    /\ is_cloudflare = FALSE
    /\ html = None
    /\ chat_price_raw = <<>>
    /\ pattern_calls = 0
    /\ selectors_price = FALSE
    /\ price_val = <<>>
    /\ vision_calls = 0
    /\ chat_pushed = <<>>
    /\ chat_result = None
    /\ clicked_turnstile = FALSE
    /\ attempted = FALSE
    /\ tried = <<>>
    /\ clicked_with = None
    /\ polls = 0

\* fetch_with_retry before its loop
LadderStart ==
    /\ sessions = 0
    /\ tiers_used = <<>>
    /\ delays = <<>>
    /\ fetched = None
    /\ opened = 0

\* a process in which the fetch is followed as one step
LadderIdle ==
    /\ fetch_use_js = FALSE
    /\ fetch_max_retries = max_retries
    /\ lpc = "idle"
    /\ LadderStart

\* a process that runs run_scraper only
ChatIdle ==
    /\ mode = "patchright"
    /\ visible = FALSE
    /\ country_code = <<>>
    /\ chat_page = <<>>
    /\ cpc = "idle"
    /\ ChatStart
    /\ ~challenge
    /\ blocked = FALSE
    /\ turnstile_locators = {}

Init ==
    /\ products \in Catalogues
    /\ site_pages = Pages
    /\ has_pandas = TRUE
    /\ has_playwright \in BOOLEAN
    /\ regions_db = {RegionsDB}
    /\ InitRun
    /\ SpinIdle
    /\ CacheStart({FALSE})
    /\ ChatIdle
    /\ LadderIdle

(***************************************************************************)
(* run_scraper, lines 391-411                                              *)
(***************************************************************************)
Start ==
    /\ pc = "start"
    /\ \/ /\ products = <<>>                      \* return 0, 0
          /\ pc' = "returned"
          /\ UNCHANGED <<i, log_lines, code_to_page_id, alias_to_page_id, cache_ok, cache_log>>
       \/ /\ products # <<>>
          /\ log_lines' = Append(log_lines, LogLine("Starting scraper", 0))
          /\ \/ \E db \in regions_db :             \* ensure_regions_cache()
                   /\ EnsureReturns(db)
                   /\ code_to_page_id' = db.codes
                   /\ alias_to_page_id' = db.aliases
                   /\ pc' = "product"
                   /\ i' = 1
             \/ /\ pc' = "raised"                  \* ensure_regions_cache() raises
                /\ EnsureRaises
                /\ UNCHANGED <<i, code_to_page_id, alias_to_page_id>>
    /\ UNCHANGED <<inputs, spin_vars, chat_vars, ladder_vars, target_no, pause_due, last_error, ri, attempt, results, idx, success_count, failure_count,
                   log_file, pushed, events>>

\* the data dict left out
DropResult(rs, data) == rs

\* the data dict appended twice
AppendTwice(rs, data) == rs \o <<data, data>>

\* results.insert(0, data)
PrependResult(rs, data) == <<data>> \o rs

\* lines 348 and 372: results.append(data)
AppendResult(rs, data) == Append(rs, data)

\* pc of the scrape of one region: lines 353-369
RegionPc(c) == IF c.type \in {"dropdown", "button"} THEN "interact" ELSE "fetch"

\* run_scraper, lines 414-416: "if i > 0", with i counted from 0 there
PauseBetweenProducts(n) == n > 1

\* lines 371-376: the pause after the scrape of a region, which "continue"
\* in the except clause steps over; the single scrape of lines 346-349 has none
PauseAfterRegion(raised) == ri # 0 /\ ~raised

\* the scrape of a region, or the single scrape, is over
EndOfScrape(raised) == pause_due' = ~PauseAfterRegion(raised)

(***************************************************************************)
(* scrape_product -> scrape_product_all_regions, lines 339-351             *)
(***************************************************************************)
BeginProduct ==
    /\ pc = "product"
    /\ i <= Len(products)
    /\ pause_due' = (pause_due /\ ~PauseBetweenProducts(i))
    /\ results' = <<>>
    /\ attempt' = 0
    /\ \/ /\ switcher_type = "none" \/ regions = <<>>
          /\ ri' = 0
          /\ pc' = "fetch"
       \/ /\ ~(switcher_type = "none" \/ regions = <<>>)
          /\ ri' = 1
          /\ pc' = RegionPc(region_config)
    /\ UNCHANGED <<inputs, spin_vars, chat_vars, ladder_vars, cache_vars, last_error, i, idx, code_to_page_id, alias_to_page_id, success_count,
                   failure_count, log_lines, log_file, pushed, events>>

\* The scrape of the current region has returned (ok, err, data); with
\* "if ok and data: results.append(data)" done, the loop goes on (lines 371-377)
\* or the single scrape returns (lines 346-349).
Advance ==
    /\ attempt' = 0
    /\ \/ /\ ri = 0 \/ ri = Len(regions)
          /\ pc' = "scraped"
          /\ ri' = ri
       \/ /\ ri # 0 /\ ri < Len(regions)
          /\ pc' = RegionPc(region_config)
          /\ ri' = ri + 1

\* the url-param branch with a url_pattern (line 353), whose inner try turns an
\* exception of scrape_single_region into a call of scrape_with_region_interaction
UrlParamBranch == ri # 0 /\ switcher_type = "url-param" /\ region_config.url_pattern

(***************************************************************************)
(* fetch_with_retry, lines 111-135, called by scrape_single_region         *)
(***************************************************************************)
\* the fetcher that attempt number a (from 0) calls: lines 120-127
\* a ladder that starts every page at the plain request
TierIgnoringMode(a, use_js) ==
    IF a = 0 THEN "requests" ELSE IF a = 1 THEN "playwright" ELSE "playwright_stealth"

Tier(a, use_js) ==
    IF a = 0 /\ ~use_js THEN "requests"
    ELSE IF a = 0 /\ use_js THEN "playwright"
    ELSE IF a = 1 /\ ~use_js THEN "playwright"
    ELSE "playwright_stealth"

\* line 184: use_js=(rendering == "js")
use_js == product.rendering = "js"

\* range(max_retries) with one attempt more
OneMoreAttempt(a) == a = max_retries

\* line 119: a is the last value of range(max_retries)
LastAttempt(a) == a = max_retries - 1

\* the exception of attempt a; exceptions are told apart by their attempt
Error(a) == Some(a)

FetchAttempt ==
    /\ pc = "fetch"
    /\ \/ /\ Tier(attempt, use_js) = "requests" \/ has_playwright   \* lines 75-80
          /\ pc' = "single_extract"               \* the attempt returns html
          /\ attempt' = 0
          /\ last_error' = None
          /\ pause_due' = TRUE
          /\ UNCHANGED <<ri, results, events>>
       \/ /\ ~LastAttempt(attempt)                \* it raises; backoff, next attempt
          /\ last_error' = Error(attempt)         \* line 129
          /\ attempt' = attempt + 1
          /\ UNCHANGED <<pc, ri, results, events, pause_due>>
       \/ /\ LastAttempt(attempt)                 \* it raises; line 133: raise last_error
          /\ events' = Append(events, [Event("fetch_failed", attempt + 1)
                                          EXCEPT !.err = Error(attempt)])
          /\ last_error' = None
          /\ results' = results
          /\ EndOfScrape(FALSE)                   \* line 186: return False, str(e), None
          /\ Advance
    /\ UNCHANGED <<inputs, spin_vars, chat_vars, ladder_vars, cache_vars, i, idx, code_to_page_id, alias_to_page_id, success_count,
                   failure_count, log_lines, log_file, pushed>>

\* no "except" around one product: the exception leaves run_scraper
RaiseToCaller ==
    /\ pc' = "raised"
    /\ UNCHANGED <<log_lines, failure_count, i>>

\* run_scraper, lines 484-486: "except Exception as e" around one product
CatchInRunScraper ==
    /\ log_lines' = Append(log_lines, LogLine("exception", i))
    /\ failure_count' = failure_count + 1
    /\ i' = i + 1
    /\ pc' = "product"

(***************************************************************************)
(* scrape_single_region, lines 188-228                                     *)
(***************************************************************************)
SingleExtract ==
    /\ pc = "single_extract"
    /\ \/ \E page \in site_pages :
             /\ results' = AppendResult(results, Data(page, TRUE, region, ri, has_pandas))
             /\ events' = Append(events, Event("data", 0))
             /\ EndOfScrape(FALSE)
             /\ Advance
             /\ UNCHANGED <<i, failure_count, log_lines>>
       \/ /\ UrlParamBranch                       \* raises; line 365 returns no data
          /\ events' = Append(events, Event("raised", 0))
          /\ results' = results
          /\ EndOfScrape(FALSE)
          /\ Advance
          /\ UNCHANGED <<i, failure_count, log_lines>>
       \/ /\ ri # 0 /\ ~UrlParamBranch            \* raises; line 375: continue
          /\ events' = Append(events, Event("raised", 0))
          /\ results' = results
          /\ EndOfScrape(TRUE)
          /\ Advance
          /\ UNCHANGED <<i, failure_count, log_lines>>
       \/ /\ ri = 0                               \* raises out of scrape_product
          /\ events' = Append(events, Event("raised", 0))
          /\ CatchInRunScraper
          /\ results' = <<>>
          /\ EndOfScrape(TRUE)
          /\ UNCHANGED <<ri, attempt>>
    /\ UNCHANGED <<inputs, spin_vars, chat_vars, ladder_vars, cache_vars, last_error, idx, code_to_page_id, alias_to_page_id, success_count,
                   log_file, pushed>>

(***************************************************************************)
(* scrape_with_region_interaction, lines 231-331                           *)
(***************************************************************************)
Interact ==
    /\ pc = "interact"
    /\ \/ /\ ~has_playwright                      \* line 241
          /\ events' = Append(events, Event("no_playwright", 0))
          /\ results' = results
          /\ EndOfScrape(FALSE)
          /\ Advance
       \/ /\ has_playwright
          /\ ~region_config.selector              \* line 257
          /\ events' = Append(events, Event("not_configured", 0))
          /\ results' = results
          /\ EndOfScrape(FALSE)
          /\ Advance
       \/ /\ has_playwright
          /\ region_config.selector               \* launch or goto raises; line 375
          /\ events' = Append(events, Event("raised", 0))
          /\ results' = results
          /\ EndOfScrape(TRUE)
          /\ Advance
       \/ /\ has_playwright
          /\ region_config.selector               \* line 296: "Region switch failed"
          /\ events' = Append(events, Event("switch_failed", 0))
          /\ results' = results
          /\ EndOfScrape(FALSE)
          /\ Advance
       \/ /\ has_playwright
          /\ region_config.selector               \* line 298: html = page.content()
          /\ pc' = "interaction_extract"
          /\ pause_due' = TRUE
          /\ UNCHANGED <<ri, attempt, results, events>>
    /\ UNCHANGED <<inputs, spin_vars, chat_vars, ladder_vars, cache_vars, last_error, i, idx, code_to_page_id, alias_to_page_id, success_count,
                   failure_count, log_lines, log_file, pushed>>

\* lines 301-331: no period-parent fallback here
InteractionExtract ==
    /\ pc = "interaction_extract"
    /\ \/ \E page \in site_pages :
             /\ results' = AppendResult(results, Data(page, FALSE, region, ri, has_pandas))
             /\ events' = Append(events, Event("data", 0))
             /\ EndOfScrape(FALSE)
       \/ /\ events' = Append(events, Event("raised", 0))           \* raises; line 375
          /\ results' = results
          /\ EndOfScrape(TRUE)
    /\ Advance
    /\ UNCHANGED <<inputs, spin_vars, chat_vars, ladder_vars, cache_vars, last_error, i, idx, code_to_page_id, alias_to_page_id, success_count,
                   failure_count, log_lines, log_file, pushed>>

(***************************************************************************)
(* scrape_product, lines 385-388, and run_scraper, lines 422-482           *)
(***************************************************************************)
\* the next product: the for loop of line 413
NextProduct ==
    /\ i' = i + 1
    /\ pc' = "product"
    /\ results' = <<>>
    /\ idx' = 0

\* "if not ok": lines 423-439
ReportNoData ==
    /\ pc = "scraped"
    /\ results = <<>>
    /\ failure_count' = failure_count + 1
    /\ \E accepted \in BOOLEAN :
         /\ pushed' = Append(pushed, FailurePush(i, NoDataMessage, accepted))
         /\ log_lines' =
              IF accepted
              THEN Append(log_lines, LogLine(NoDataMessage, i))
              ELSE Append(log_lines, LogLine(NoDataMessage, i))
                     \o <<LogLine("Failed to log error to Notion", i)>>
    /\ NextProduct
    /\ UNCHANGED <<inputs, spin_vars, chat_vars, ladder_vars, cache_vars, pause_due, last_error, ri, attempt, code_to_page_id, alias_to_page_id, success_count,
                   log_file, events>>

\* scrape_product returned (True, "", all_data): "for data in data_list" begins
BeginPush ==
    /\ pc = "scraped"
    /\ results # <<>>
    /\ pc' = "push"
    /\ idx' = 1
    /\ UNCHANGED <<inputs, spin_vars, chat_vars, ladder_vars, cache_vars, pause_due, last_error, i, ri, attempt, results, code_to_page_id, alias_to_page_id,
                   success_count, failure_count, log_lines, log_file, pushed, events>>

\* a loop that leaves after its first turn
OnlyFirstData ==
    NextProduct

\* after the body of "for data in data_list"
NextData ==
    \/ /\ idx < Len(results)
       /\ idx' = idx + 1
       /\ UNCHANGED <<pc, i, results>>
    \/ /\ idx = Len(results)
       /\ NextProduct

\* no "except" inside the loop body: a push that raises ends the product
AfterPushAbort(accepted) == IF accepted THEN NextData ELSE NextProduct

\* lines 462-463 and 480-482: a push that raises is caught inside the loop body
AfterPush(accepted) == NextData

\* one iteration of "for data in data_list": lines 446-482
PushData ==
    /\ pc = "push"
    /\ LET data == results[idx]
           region_page_id == resolve_region_page_id(data.region, code_to_page_id, alias_to_page_id)
       IN  \E accepted \in BOOLEAN :
             \/ /\ IsNone(data.amount)                            \* lines 449-464
                /\ pushed' = Append(pushed, ParseFailurePush(i, data, region_page_id, accepted))
                /\ log_lines' = IF accepted THEN log_lines
                                ELSE Append(log_lines, LogLine("Failed to log to Notion", i))
                /\ failure_count' = failure_count + 1
                /\ UNCHANGED success_count
                /\ AfterPush(accepted)
             \/ /\ ~IsNone(data.amount)                           \* lines 466-479
                /\ accepted
                /\ pushed' = Append(pushed, SuccessPush(i, data, region_page_id, accepted))
                /\ log_lines' = Append(log_lines, LogLine("ok", i))
                /\ success_count' = success_count + 1
                /\ UNCHANGED failure_count
                /\ AfterPush(accepted)
             \/ /\ ~IsNone(data.amount)                           \* lines 480-482
                /\ ~accepted
                /\ pushed' = Append(pushed, SuccessPush(i, data, region_page_id, accepted))
                /\ log_lines' = Append(log_lines, LogLine("Notion push failed", i))
                /\ failure_count' = failure_count + 1
                /\ UNCHANGED success_count
                /\ AfterPush(accepted)
    /\ UNCHANGED <<inputs, spin_vars, chat_vars, ladder_vars, cache_vars, pause_due, last_error, ri, attempt, code_to_page_id, alias_to_page_id, log_file, events>>

\* lines 488-497: the summary line, the log file, return
Summary ==
    /\ pc = "product"
    /\ i > Len(products)
    /\ pc' = "done"
    /\ \/ /\ log_file' = Some(Append(log_lines, LogLine("Done", 0)))
          /\ log_lines' = Append(log_lines, LogLine("Done", 0)) \o <<LogLine("Log saved", 0)>>
       \/ /\ log_file' = None                                     \* open/write raises: pass
          /\ log_lines' = Append(log_lines, LogLine("Done", 0))
    /\ UNCHANGED <<inputs, spin_vars, chat_vars, ladder_vars, cache_vars, pause_due, last_error, i, ri, attempt, results, idx, code_to_page_id, alias_to_page_id,
                   success_count, failure_count, pushed, events>>

Next ==
    \/ Start
    \/ BeginProduct
    \/ FetchAttempt
    \/ SingleExtract
    \/ Interact
    \/ InteractionExtract
    \/ ReportNoData
    \/ BeginPush
    \/ PushData
    \/ Summary

Spec == Init /\ [][Next]_vars

\* KeyboardInterrupt is no Exception: no "except Exception" of run_scraper
\* catches it, nothing between lines 413 and 488 writes log_path, and main
\* (lines 506-508) prints "Interrupted by user" and returns 130
Interrupt ==
    /\ pc \notin {"done", "returned", "raised", "interrupted"}
    /\ pc' = "interrupted"
    /\ UNCHANGED <<inputs, spin_vars, chat_vars, ladder_vars, cache_vars, pause_due, last_error, i, ri, attempt, results, idx, code_to_page_id, alias_to_page_id,
                   success_count, failure_count, log_lines, log_file, pushed, events>>

NextOrInterrupt ==
    \/ Next
    \/ Interrupt

\* the runs of main in which the operator may press Ctrl-C at any step
InterruptSpec == Init /\ [][NextOrInterrupt]_vars

(***************************************************************************)
(* Runs over one product with one region token and several Regions DBs    *)
(***************************************************************************)
\* pages of populate_regions_db.CANONICAL_REGIONS: countries and aggregates
CanonicalRegions ==
    {RegionPage(<<"U", "S">>, "page-US", {<<"U", "n", "i", "t", "e", "d", " ", "S", "t", "a", "t", "e", "s">>}),
     RegionPage(<<"G", "B">>, "page-GB", {<<"U", "n", "i", "t", "e", "d", " ", "K", "i", "n", "g", "d", "o", "m">>}),
     RegionPage(<<"L", "A">>, "page-LA", {}),
     RegionPage(<<"A", "F">>, "page-AF", {}),
     RegionPage(<<"C", "I">>, "page-CI", {}),
     RegionPage(<<"M", "E">>, "page-ME", {}),
     RegionPage(<<"S", "A">>, "page-SA", {}),
     RegionPage(<<"C", "I", "S">>, "page-CIS", {}),
     RegionPage(<<"M", "E", "N", "A">>, "page-MENA", {}),
     RegionPage(<<"X", "F">>, "page-XF", {}),
     RegionPage(<<"X", "L">>, "page-XL", {})}

\* the aggregate regions
Aggregates == {<<"C", "I", "S">>, <<"M", "E", "N", "A">>, <<"X", "F">>, <<"X", "L">>}

\* the tables of a Regions DB whose GB page lists "us" among its Aliases and
\* is read after the US page: line 138 overwrites the entry of line 131
AliasClashDB ==
    LET db == fetch_regions_maps(CanonicalRegions)
    IN  [db EXCEPT !.aliases = (<<"u", "s">> :> "page-GB") @@ db.aliases]

RegionDBs ==
    {fetch_regions_maps(CanonicalRegions),
     AliasClashDB,
     fetch_regions_maps({p \in CanonicalRegions : p.code \notin Aggregates}),
     EmptyRegionsDB}

\* region tokens of a product's "Available Regions"
RegionTokens ==
    {<<"u", "k">>,
     <<"U", "K">>,
     <<"U", "k">>,
     <<" ", "u", "k", " ">>,
     <<"a", "f", "r", "i", "c", "a">>,
     <<"A", "f", "r", "i", "c", "a">>,
     <<"A", "F", "R", "I", "C", "A">>,
     <<"l", "a">>,
     <<"L", "a">>,
     <<"c", "i", "s", "_", "e", "n">>,
     <<"C", "I", "S", "_", "E", "N">>,
     <<"c", "i", "s", "_", "r", "u">>,
     <<"C", "i", "s", "_", "R", "u">>,
     <<"m", "e", "n", "a", "_", "a", "r">>,
     <<"M", "E", "N", "A", "_", "A", "R">>,
     <<"m", "e", "n", "a", "_", "e", "n">>,
     <<"M", "e", "n", "a", "_", "E", "n">>,
     <<"z", "z">>,
     <<"u", "s", "_", "e", "n">>,
     <<"u", "s">>,
     <<"s", "a", "_", "e", "n">>,
     <<"m", "e", "n", "a", "_", "f", "r">>,
     <<"z", "z", "_", "e", "n">>,
     <<"u", "n", "i", "t", "e", "d", " ", "k", "i", "n", "g", "d", "o", "m">>}
    \cup {p.code : p \in CanonicalRegions}

RegionInit ==
    /\ products \in {<<[rendering |-> rd,
                         region_config |-> [type |-> ty, regions |-> <<token>>,
                                            url_pattern |-> ty = "url-param",
                                            selector |-> ty = "dropdown"]]>> :
                        rd \in {"static"}, ty \in {"url-param", "dropdown"}, token \in RegionTokens}
    /\ site_pages = Pages
    /\ has_pandas = TRUE
    /\ has_playwright \in BOOLEAN
    /\ regions_db = RegionDBs
    /\ InitRun
    /\ SpinIdle
    /\ CacheStart(BOOLEAN)
    /\ ChatIdle
    /\ LadderIdle

RegionSpec == RegionInit /\ [][Next]_vars

\* a run that never stops while a step is possible: every wait of the code
\* (fetch timeouts, backoff, pauses) is bounded
LiveSpec == Init /\ [][Next]_vars /\ WF_vars(Next)

(***************************************************************************)
(* Runs over one product and many page contents                            *)
(***************************************************************************)
PriceTexts ==
    {<<>>,
     <<"$", "1", "2", ".", "9", "9">>,
     <<"F", "r", "e", "e">>,
     <<"1", "9", ",", "9", "9", " ", "euro">>,
     <<"R", "$", " ", "9", "9", ",", "9", "0">>,
     <<"1", ".", "2", "3", "4", ",", "5", "6">>,
     <<"1", ",", "2", "3", "4", ".", "5", "6">>,
     <<"Z", "A", "R", " ", "3", "9", "9">>,
     <<"0">>}

CurrencyTexts == {<<>>, <<"E", "U", "R">>, <<",">>}

PeriodTexts == {<<>>, PerMonth}

\* what the period element's parent holds before the period
SiblingTexts == {<<>>, <<"$", "2", "0">>}

RichPages ==
    {Page(price, currency, period, IF period = <<>> THEN <<>> ELSE sibling \o period) :
        price \in PriceTexts, currency \in CurrencyTexts, period \in PeriodTexts,
        sibling \in SiblingTexts}

PageInit ==
    /\ products \in {c \in Catalogues :
                       Len(c) <= 1 /\ \A k \in DOMAIN c : Len(c[k].region_config.regions) <= 1}
    /\ site_pages = RichPages
    /\ has_pandas \in BOOLEAN
    /\ has_playwright \in BOOLEAN
    /\ regions_db = {RegionsDB, EmptyRegionsDB}
    /\ InitRun
    /\ SpinIdle
    /\ CacheStart({FALSE})
    /\ ChatIdle
    /\ LadderIdle

PageSpec == PageInit /\ [][Next]_vars

(***************************************************************************)
(* chatgpt_scraper.scrape_region and selector_discovery.discover_for_product *)
(***************************************************************************)
\* what the selectors of SELECTORS find on the served page and the text of
\* the Plus section (None: the page has no such section)
ChatPage(price, currency, period, plan_name, plus_section) ==
    [price |-> price, currency |-> currency, period |-> period, plan_name |-> plan_name,
     plus_section |-> plus_section]

\* the challenge page: no selector matches and there is no Plus section
ChallengePage == ChatPage(<<>>, <<>>, <<>>, <<>>, None)

Plus == <<"P", "l", "u", "s">>

ChatPriceTexts ==
    {<<>>,
     <<"$", "2", "0">>,
     <<"R", "$", "9", "9", ",", "9", "0">>,
     <<"R", "$", " ", "9", "9", ",", "9", "0">>,
     <<"F", "r", "e", "e">>}

\* plus_section.get_text(): the heading, the price and the period, joined
ChatSectionTexts ==
    {None, Some(Plus)} \cup {Some(Plus \o price \o PerMonth) : price \in ChatPriceTexts \ {<<>>}}

ChatPages ==
    {ChatPage(price, currency, period, <<>>, plus_section) :
        price \in ChatPriceTexts, currency \in {<<>>, Code("E", "U", "R")},
        period \in PeriodTexts, plus_section \in ChatSectionTexts}

\* <div id="plus"><h3>Plus</h3><span>$20</span><div>/month</div></div>
PlusPage == ChatPage(<<"$", "2", "0">>, <<>>, PerMonth, Plus, Some(Plus \o <<"$", "2", "0">> \o PerMonth))

\* fetch_page_with_patchright lines 282-287: the selectors tried in the Turnstile frame
TurnstileSelectors == <<"input[type='checkbox']", "#cf-turnstile-response", ".cf-turnstile", "body">>

\* which of them match an element of the frame, by position
LocatorSets == {{}, {1}, {2, 4}, {4}}

Modes == {"patchright", "nodriver", "crawlee", "apify", "direct"}

\* the fetchers that run the challenge poll loop
PollingModes == Modes \ {"apify"}

\* the pause of the poll loop: time.sleep(2); waited += 2
cf_wait_interval == 2

\* max_wait of the fetcher of mode m
max_wait(m, v) ==
    IF m = "patchright" THEN (IF v THEN 90 ELSE 60) ELSE 30

ChatInit ==
    /\ products = <<>>
    /\ site_pages = {}
    /\ has_pandas = TRUE
    /\ has_playwright = TRUE
    /\ regions_db = {RegionsDB}
    /\ InitRun
    /\ SpinIdle
    /\ CacheStart({FALSE})
    /\ LadderIdle
    /\ ChatStart
    /\ \/ /\ cpc = "fetch"                         \* scrape_region
          /\ mode \in Modes
          /\ visible \in {v \in BOOLEAN : v => mode = "patchright"}
          /\ country_code \in {US, ZZ}
          /\ blocked \in BOOLEAN
          /\ turnstile_locators \in IF visible THEN LocatorSets ELSE {{}}
          \* the pricing page matters only to a run that can be served it
          /\ chat_page \in IF blocked \/ visible THEN {PlusPage} ELSE ChatPages
       \/ /\ cpc = "discover"                      \* discover_for_product
          /\ mode = "patchright"
          /\ visible = FALSE
          /\ country_code = <<>>
          /\ blocked = FALSE
          /\ turnstile_locators = {}
          /\ chat_page \in ChatPages

\* the arguments and the site's content, which no step changes
chat_inputs == <<mode, visible, country_code, chat_page, blocked, turnstile_locators>>

\* the state of the interactive resolution, which only the poll loop changes
poll_vars == <<clicked_turnstile, attempted, tried, clicked_with, polls>>

\* scrape_region returns: lines 809-811, 867, 904, 907
ChatReturn(ok) ==
    /\ cpc' = "done"
    /\ chat_result' = Some(ok)

\* what the site serves once no challenge stands in the way
Answer == IF blocked THEN "blocked" ELSE "content"

\* scrape_region lines 798-807, up to the poll loop of the fetcher
ChatFetch ==
    /\ cpc = "fetch"
    /\ \/ /\ mode = "apify"                        \* fetch_page_with_apify
          /\ \/ html' = None
             \/ html' = IF challenge THEN None ELSE Some(Answer)
          /\ cpc' = "fetched"
          /\ UNCHANGED waited
       \/ /\ mode \in PollingModes                 \* launch or navigation raises
          /\ html' = None
          /\ cpc' = "fetched"
          /\ UNCHANGED waited
       \/ /\ mode \in PollingModes
          /\ waited' = 0
          /\ cpc' = "poll"
          /\ UNCHANGED html
    /\ UNCHANGED <<inputs, spin_vars, run_vars, ladder_vars, cache_vars, chat_inputs, poll_vars, challenge, is_cloudflare, chat_price_raw,
                   pattern_calls, selectors_price, price_val, vision_calls, chat_pushed,
                   chat_result>>

\* the click tried although one was delivered, and not before
ClickWhenClicked(v, clicked) == v /\ clicked

\* line 275: if visible and not clicked_turnstile
ClickWanted(v, clicked) == v /\ ~clicked

\* the loop entered once more when waited has reached max_wait
LoopGuardInclusive(w, m) == w <= m

\* "while waited < max_wait"
LoopGuard(w, m) == w < m

\* one turn of "while waited < max_wait": lines 262-320, 412-419, 477-484, 601-609
ChatPoll ==
    /\ cpc = "poll"
    /\ LoopGuard(waited, max_wait(mode, visible))
    /\ polls' = polls + 1
    /\ \/ /\ challenge                             \* sleep; the challenge may pass meanwhile
          /\ is_cloudflare' = TRUE
          /\ IF mode = "patchright" /\ ClickWanted(visible, clicked_turnstile)
             THEN /\ attempted' = TRUE             \* lines 276-311
                  /\ \/ \E k \in turnstile_locators :   \* those before k did not take the click
                           /\ tried' = SubSeq(TurnstileSelectors, 1, k)
                           /\ clicked_with' = Some(TurnstileSelectors[k])
                           /\ clicked_turnstile' = TRUE
                     \/ /\ \E frame \in BOOLEAN :  \* no frame yet, or no selector took the click
                             tried' = IF frame THEN TurnstileSelectors ELSE <<>>
                        /\ \/ /\ clicked_with' = Some("widget area")
                              /\ clicked_turnstile' = TRUE
                           \/ UNCHANGED <<clicked_with, clicked_turnstile>>
             ELSE /\ attempted' = FALSE
                  /\ tried' = <<>>
                  /\ UNCHANGED <<clicked_with, clicked_turnstile>>
          /\ waited' = waited + cf_wait_interval
          /\ challenge' \in BOOLEAN
          /\ UNCHANGED <<cpc, html>>
       \/ /\ ~challenge                            \* break
          /\ is_cloudflare' = FALSE
          /\ cpc' = "content"
          /\ UNCHANGED <<waited, challenge, html, clicked_turnstile, attempted, tried, clicked_with>>
       \/ /\ html' = None                          \* reading the page raises
          /\ cpc' = "fetched"
          /\ UNCHANGED <<waited, challenge, is_cloudflare, clicked_turnstile, attempted, tried,
                         clicked_with>>
    /\ UNCHANGED <<inputs, spin_vars, run_vars, ladder_vars, cache_vars, chat_inputs, chat_price_raw, pattern_calls, selectors_price,
                   price_val, vision_calls, chat_pushed, chat_result>>

\* what "if waited >= max_wait:" does in the fetcher of mode m
\* (lines 322-325, 421-422, 486-487, 611-612): TRUE when it returns None
GivesUp(m) == m = "patchright"

\* the loop ended because waited reached max_wait
ChatTimeout ==
    /\ cpc = "poll"
    /\ ~LoopGuard(waited, max_wait(mode, visible))
    /\ IF GivesUp(mode) /\ waited >= max_wait(mode, visible)
       THEN /\ html' = None
            /\ cpc' = "fetched"
       ELSE /\ cpc' = "content"
            /\ UNCHANGED html
    /\ UNCHANGED <<inputs, spin_vars, run_vars, ladder_vars, cache_vars, chat_inputs, poll_vars, challenge, waited, is_cloudflare,
                   chat_price_raw, pattern_calls, selectors_price, price_val, vision_calls,
                   chat_pushed, chat_result>>

\* the wait for the pricing selectors, the last sleep and the return of the
\* page's content: lines 327-370, 424-442, 489-504, 614-642
ChatContent ==
    /\ cpc = "content"
    /\ \E passed \in BOOLEAN :
         /\ challenge' = (challenge /\ ~passed)
         /\ \/ html' = Some(IF challenge' THEN "challenge" ELSE Answer)
            \/ html' = None                        \* except Exception: return None
    /\ cpc' = "fetched"
    /\ UNCHANGED <<inputs, spin_vars, run_vars, ladder_vars, cache_vars, chat_inputs, poll_vars, waited, is_cloudflare, chat_price_raw,
                   pattern_calls, selectors_price, price_val, vision_calls, chat_pushed,
                   chat_result>>

\* BeautifulSoup(html, "lxml") and the selectors on it
Served == IF Val(html) \in {"challenge", "blocked"} THEN ChallengePage ELSE chat_page

\* the second tier always tried when there is a Plus section
PatternTierAlways(raw, plus_section) == ~IsNone(plus_section)

\* line 842: if not price_raw and plus_section
PatternTierNeeded(raw, plus_section) == raw = <<>> /\ ~IsNone(plus_section)

\* scrape_region lines 809-845: the price text
ChatExtract ==
    /\ cpc = "fetched"
    /\ \/ /\ IsNone(html)                          \* if not html: return False
          /\ ChatReturn(FALSE)
          /\ UNCHANGED <<chat_price_raw, pattern_calls>>
       \/ /\ ~IsNone(html)
          /\ IF PatternTierNeeded(Served.price, Served.plus_section)
             THEN /\ chat_price_raw' = extract_price_from_html(Val(Served.plus_section))
                  /\ pattern_calls' = pattern_calls + 1
             ELSE /\ chat_price_raw' = Served.price
                  /\ UNCHANGED pattern_calls
          /\ cpc' = "emit"
          /\ UNCHANGED chat_result
    /\ UNCHANGED <<inputs, spin_vars, run_vars, ladder_vars, cache_vars, chat_inputs, poll_vars, challenge, waited, is_cloudflare, html,
                   selectors_price, price_val, vision_calls, chat_pushed>>

\* one call of push_price_data by scrape_region, lines 893-902
ChatPush(amount, currency, period, plan_name, region_page_id, accepted) ==
    [country_code |-> country_code, amount |-> amount, currency |-> currency,
     period |-> period, plan_name |-> plan_name, success |-> TRUE,
     region_page_id |-> region_page_id, accepted |-> accepted]

\* scrape_region lines 847-907: parse, classify, push
ChatEmit ==
    /\ cpc = "emit"
    /\ LET amount == chat_parse_price(chat_price_raw)
           currency == extract_currency(OrStr(chat_price_raw, Served.currency))
           period == chat_period(Served.period)
           plan_name == OrStr(Strip(Served.plan_name), Plus)
       IN  \/ /\ IsNone(amount)                    \* lines 853-867
              /\ ChatReturn(FALSE)
              /\ UNCHANGED <<chat_pushed, cache_ok, cache_log>>
           \/ /\ ~IsNone(amount)                   \* ensure_regions_cache() raises
              /\ EnsureRaises
              /\ ChatReturn(FALSE)
              /\ UNCHANGED chat_pushed
           \/ /\ ~IsNone(amount)
              /\ \E db \in regions_db :
                   /\ EnsureReturns(db)               \* line 889
                   /\ LET region_page_id == resolve_region_page_id(Some(country_code), db.codes, db.aliases)
                     IN  \/ /\ IsNone(region_page_id)    \* raise ValueError
                            /\ ChatReturn(FALSE)
                            /\ UNCHANGED chat_pushed
                         \/ /\ ~IsNone(region_page_id)
                            /\ \E accepted \in BOOLEAN :
                                 /\ chat_pushed' = Append(chat_pushed,
                                        ChatPush(Val(amount), currency, period, plan_name,
                                                 region_page_id, accepted))
                                 /\ ChatReturn(accepted)
    /\ UNCHANGED <<inputs, spin_vars, run_vars, ladder_vars, target_no, chat_inputs, poll_vars, challenge, waited, is_cloudflare, html,
                   chat_price_raw, pattern_calls, selectors_price, price_val, vision_calls>>

\* the markers of test_selectors, lines 434-441
NoSelector == <<"(", "n", "o", " ", "s", "e", "l", "e", "c", "t", "o", "r", ")">>

NotFound == <<"(", "n", "o", "t", " ", "f", "o", "u", "n", "d", ")">>

ErrorMarker == <<"(", "e", "r", "r", "o", "r", ":", " ", "e", ")">>

\* line 494: price_val and price_val not in ("(not found)", "(no selector)", "(error:")
price_ok(val) == val # <<>> /\ val \notin {NotFound, NoSelector, <<"(", "e", "r", "r", "o", "r", ":">>}

\* line 495: if not selectors.get("price") or not price_ok
VisionNeeded(has_selector, val) == ~has_selector \/ ~price_ok(val)

\* discover_for_product lines 475-486: the fetch
DiscoverFetch ==
    /\ cpc = "discover"
    /\ \/ /\ ChatReturn(FALSE)                     \* fetch_with_retry raises
          /\ UNCHANGED html
       \/ /\ html' = Some("content")
          /\ cpc' = "selectors"
          /\ UNCHANGED chat_result
    /\ UNCHANGED <<inputs, spin_vars, run_vars, ladder_vars, cache_vars, chat_inputs, poll_vars, challenge, waited, is_cloudflare,
                   chat_price_raw, pattern_calls, selectors_price, price_val, vision_calls,
                   chat_pushed>>

\* discover_for_product lines 488-584: the selectors, their test, the vision fallback
Discover ==
    /\ cpc = "selectors"
    /\ \/ /\ ChatReturn(FALSE)                     \* discover_selectors_with_gemini raises
          /\ UNCHANGED <<selectors_price, price_val, vision_calls>>
       \/ /\ \E has_selector \in BOOLEAN :
               \E val \in IF has_selector THEN {chat_page.price, NotFound, ErrorMarker}
                          ELSE {<<>>, NoSelector} :
                 /\ selectors_price' = has_selector
                 /\ price_val' = val
                 /\ IF VisionNeeded(has_selector, val)
                    THEN \/ vision_calls' = vision_calls + 1
                         \/ UNCHANGED vision_calls  \* fetch_page_with_screenshot raises
                    ELSE UNCHANGED vision_calls
          /\ \E ok \in BOOLEAN : ChatReturn(ok)    \* update_product_selectors
    /\ UNCHANGED <<inputs, spin_vars, run_vars, ladder_vars, cache_vars, chat_inputs, poll_vars, challenge, waited, is_cloudflare, html,
                   chat_price_raw, pattern_calls, chat_pushed>>

ChatNext ==
    \/ ChatFetch
    \/ ChatPoll
    \/ ChatTimeout
    \/ ChatContent
    \/ ChatExtract
    \/ ChatEmit
    \/ DiscoverFetch
    \/ Discover

ChatSpec == ChatInit /\ [][ChatNext]_vars

\* a fetcher whose poll loop never stops while a turn is possible: the page
\* reads and the click of a turn have timeouts of their own, and the sleep ends
ChatLiveSpec == ChatInit /\ [][ChatNext]_vars /\ WF_vars(ChatPoll \/ ChatTimeout)

(***************************************************************************)
(* chatgpt_scraper.main over its target regions, lines 1021-1038           *)
(***************************************************************************)
\* the regions one run of chatgpt_scraper scrapes
MaxTargets == 2

\* target_regions: a region of the Regions DB and one that is not in the tables
TargetRegion(n) == IF n % 2 = 1 THEN US ELSE ZZ

CacheInit ==
    /\ products = <<>>
    /\ site_pages = {}
    /\ has_pandas = TRUE
    /\ has_playwright = TRUE
    /\ regions_db = {RegionsDB}
    /\ InitRun
    /\ SpinIdle
    /\ CacheStart(BOOLEAN)
    /\ LadderIdle
    /\ ChatStart
    /\ cpc = "fetch"
    /\ mode \in Modes
    /\ visible = FALSE
    /\ country_code = TargetRegion(1)
    /\ blocked = FALSE
    /\ turnstile_locators = {}
    /\ chat_page \in {PlusPage, ChallengePage}

\* scrape_region has returned or raised: the next turn of the loop at line 1021
ChatNextRegion ==
    /\ cpc = "done"
    /\ ~IsNone(country_code)
    /\ target_no < MaxTargets
    /\ target_no' = target_no + 1
    /\ country_code' = TargetRegion(target_no + 1)
    /\ cpc' = "fetch"
    /\ challenge' \in BOOLEAN
    /\ waited' = 0
    /\ is_cloudflare' = FALSE
    /\ html' = None
    /\ chat_price_raw' = <<>>
    /\ chat_result' = None
    /\ clicked_turnstile' = FALSE
    /\ attempted' = FALSE
    /\ tried' = <<>>
    /\ clicked_with' = None
    /\ polls' = 0
    /\ UNCHANGED <<inputs, spin_vars, run_vars, ladder_vars, cache_ok, cache_log, mode, visible, chat_page,
                   blocked, turnstile_locators, pattern_calls, selectors_price, price_val,
                   vision_calls, chat_pushed>>

CacheNext ==
    \/ ChatFetch
    \/ ChatPoll
    \/ ChatTimeout
    \/ ChatContent
    \/ ChatExtract
    \/ ChatEmit
    \/ ChatNextRegion

CacheSpec == CacheInit /\ [][CacheNext]_vars

(***************************************************************************)
(* fetch_with_retry step by step, with the sessions its fetchers open, and *)
(* the browser of scrape_with_region_interaction                           *)
(***************************************************************************)
\* the largest max_retries a call is given
MaxRetriesArg == 4

\* the fetchers of lines 120-127, from the cheapest
Tiers == <<"requests", "playwright", "playwright_stealth">>

LadderInit ==
    /\ products = <<>>
    /\ site_pages = {}
    /\ has_pandas = TRUE
    /\ has_playwright \in BOOLEAN
    /\ regions_db = {RegionsDB}
    /\ InitRun
    /\ SpinIdle
    /\ CacheStart({FALSE})
    /\ ChatIdle
    /\ LadderStart
    /\ \/ /\ lpc = "attempt"                       \* fetch_with_retry(url, use_js, max_retries)
          /\ fetch_use_js \in BOOLEAN
          /\ fetch_max_retries \in 0..MaxRetriesArg
       \/ /\ lpc = "interaction"                   \* scrape_with_region_interaction
          /\ fetch_use_js = FALSE
          /\ fetch_max_retries = max_retries

\* what the ladder leaves alone
ladder_frame == <<inputs, spin_vars, chat_vars, cache_vars, fetch_use_js, fetch_max_retries, pc, i, ri, results, idx,
                  code_to_page_id, alias_to_page_id, success_count, failure_count, log_lines,
                  log_file, pushed, events, pause_due>>

\* a backoff that grows by two seconds a time
BackoffLinear(a) == 2 * a

\* line 131: 2**attempt
Backoff(a) == 2 ^ a

\* progress.sleep_with_progress(seconds): nothing when seconds <= 0
Slept(ds, seconds) == IF seconds <= 0 THEN ds ELSE Append(ds, seconds)

\* lines 128-135: except Exception as e, and the end of the loop
LadderFail ==
    /\ last_error' = Error(attempt)
    /\ IF attempt < fetch_max_retries - 1
       THEN /\ delays' = Slept(delays, Backoff(attempt))
            /\ attempt' = attempt + 1
            /\ lpc' = "attempt"
       ELSE /\ lpc' = "raised"                     \* raise last_error
            /\ UNCHANGED <<delays, attempt>>

\* the with block left by an exception and the browser still running
ExitLeavesBrowser(n) == n

\* "with sync_playwright() as p" left by an exception: Playwright stops and
\* takes the browser it launched with it
ExitPlaywright(n) == n - 1

\* the loop going on to its next turn after a fetcher returned
FallThroughPc == "attempt"

\* lines 120-127: return fetch_html_...(url)
ReturnPc == "returned"

\* the top of the loop body: lines 119-127, up to the session being open
LadderAttempt ==
    /\ lpc = "attempt"
    /\ attempt < fetch_max_retries
    /\ tiers_used' = Append(tiers_used, Tier(attempt, fetch_use_js))
    /\ \/ /\ Tier(attempt, fetch_use_js) = "requests"      \* requests.get opens its session
          /\ sessions' = sessions + 1
          /\ opened' = opened + 1
          /\ lpc' = "request"
          /\ UNCHANGED <<attempt, last_error, delays>>
       \/ /\ Tier(attempt, fetch_use_js) # "requests"
          /\ has_playwright                                \* p.chromium.launch
          /\ sessions' = sessions + 1
          /\ opened' = opened + 1
          /\ lpc' = "browser"
          /\ UNCHANGED <<attempt, last_error, delays>>
       \/ /\ Tier(attempt, fetch_use_js) # "requests"      \* ImportError, or the launch raises
          /\ UNCHANGED <<sessions, opened>>
          /\ LadderFail
    /\ UNCHANGED <<ladder_frame, fetched>>

\* range(0): lines 132-134 with no attempt made
LadderExhausted ==
    /\ lpc = "attempt"
    /\ attempt >= fetch_max_retries
    /\ lpc' = "raised"                                     \* raise RuntimeError("Fetch failed")
    /\ UNCHANGED <<ladder_frame, attempt, last_error, sessions, tiers_used, delays, fetched, opened>>

\* fetch_html_requests, lines 62-70: an error status raises in
\* raise_for_status, and resp.text is whatever page came with a good status
LadderRequest ==
    /\ lpc = "request"
    /\ sessions' = sessions - 1                            \* requests.get closes its session
    /\ \/ /\ \E page \in {"content", "challenge"} : fetched' = Some(page)
          /\ lpc' = ReturnPc
          /\ UNCHANGED <<attempt, last_error, delays>>
       \/ /\ LadderFail
          /\ UNCHANGED fetched
    /\ UNCHANGED <<ladder_frame, tiers_used, opened>>

\* fetch_html_playwright, lines 85-103: page.goto does not look at the
\* status, and page.content() is whatever page the site served
LadderBrowser ==
    /\ lpc = "browser"
    /\ \/ /\ \E page \in {"content", "challenge"} : fetched' = Some(page)
          /\ sessions' = sessions - 1                      \* browser.close()
          /\ lpc' = ReturnPc
          /\ UNCHANGED <<attempt, last_error, delays>>
       \/ /\ sessions' = ExitPlaywright(sessions)          \* page.goto raises
          /\ LadderFail
          /\ UNCHANGED fetched
    /\ UNCHANGED <<ladder_frame, tiers_used, opened>>

\* scrape_with_region_interaction, lines 238-271
InteractionOpen ==
    /\ lpc = "interaction"
    /\ \/ /\ ~has_playwright                               \* return False, "Playwright not installed"
          /\ lpc' = "returned"
          /\ UNCHANGED <<sessions, opened>>
       \/ /\ has_playwright                                \* line 257: no switcher configured
          /\ lpc' = "returned"
          /\ UNCHANGED <<sessions, opened>>
       \/ /\ has_playwright
          /\ \/ /\ sessions' = sessions + 1
                /\ opened' = opened + 1
                /\ lpc' = "switching"
             \/ /\ lpc' = "raised"                         \* the launch raises
                /\ UNCHANGED <<sessions, opened>>
    /\ UNCHANGED <<ladder_frame, attempt, last_error, tiers_used, delays, fetched>>

\* scrape_with_region_interaction, lines 266-299
InteractionSwitch ==
    /\ lpc = "switching"
    /\ \/ /\ sessions' = ExitPlaywright(sessions)          \* page.goto raises
          /\ lpc' = "raised"
       \/ /\ sessions' = sessions - 1                      \* lines 294-296, or 298-299
          /\ lpc' = "returned"
    /\ UNCHANGED <<ladder_frame, attempt, last_error, tiers_used, delays, fetched, opened>>

LadderNext ==
    \/ LadderAttempt
    \/ LadderExhausted
    \/ LadderRequest
    \/ LadderBrowser
    \/ InteractionOpen
    \/ InteractionSwitch

LadderSpec == LadderInit /\ [][LadderNext]_vars


(***************************************************************************)
(* Properties                                                              *)
(***************************************************************************)
\* product p takes the region loop of scrape_product_all_regions
MultiRegion(p) ==
    /\ products[p].region_config.type # "none"
    /\ products[p].region_config.regions # <<>>

\* the product/region pairs of product p; region 0 is the scrape without a region
PairsOf(p) == IF MultiRegion(p) THEN 1..Len(products[p].region_config.regions) ELSE {0}

\* run_scraper is done with product p
Finished(p) == pc \in {"product", "done"} /\ i > p

Events(p, r) == {k \in DOMAIN events : events[k].p = p /\ events[k].r = r}

\* the calls of push_price_data made for product p
ObsOf(p) == {k \in DOMAIN pushed : pushed[k].p = p}

ObsOfPair(p, r) == {k \in DOMAIN pushed : pushed[k].p = p /\ pushed[k].r = r}

FailureKinds == {"fetch_failed", "raised", "switch_failed", "not_configured", "no_playwright"}

\* the page id the region token r of product p resolves to
ResolvedRegion(p, r) ==
    IF r = 0 THEN None
    ELSE resolve_region_page_id(Some(products[p].region_config.regions[r]),
                                code_to_page_id, alias_to_page_id)

\* every region of product p returned data or had all its fetch attempts fail,
\* and at least one returned data
FetchedOrFailed(p) ==
    /\ \A k \in DOMAIN events : events[k].p = p => events[k].kind \in {"data", "fetch_failed"}
    /\ \E k \in DOMAIN events : events[k].p = p /\ events[k].kind = "data"

\* C1: a product with N region tokens hands exactly N observations to
\* persistence, one per region token and tagged with that region, also when
\* the fetch of one region fails while others succeed.
C1_OneObservationPerRegion ==
    \A p \in DOMAIN products :
        Finished(p) /\ MultiRegion(p) /\ FetchedOrFailed(p) =>
            /\ Cardinality(ObsOf(p)) = Len(products[p].region_config.regions)
            /\ \A r \in PairsOf(p) :
                 /\ Cardinality(ObsOfPair(p, r)) = 1
                 /\ \A k \in ObsOfPair(p, r) : pushed[k].region_page_id = ResolvedRegion(p, r)

\* every fetch attempt of the scrape of product p without a region failed
AllFetchesFailed(p) ==
    \E k \in Events(p, 0) : events[k].kind = "fetch_failed"

\* C2: when every fetch attempt of a product without region switching fails,
\* max_retries attempts were made, exactly one observation is handed to
\* persistence, with amount 0, success false and a non-empty note, and
\* run_scraper has not raised.
C2_FetchFailureDemoted ==
    \A p \in DOMAIN products :
        Finished(p) /\ ~MultiRegion(p) /\ AllFetchesFailed(p) =>
            /\ \A k \in Events(p, 0) : events[k].n = max_retries
            /\ Cardinality(ObsOf(p)) = 1
            /\ \A k \in ObsOf(p) :
                 /\ pushed[k].amount = Zero
                 /\ ~pushed[k].success
                 /\ ~IsNone(pushed[k].notes)
                 /\ Val(pushed[k].notes) # ""
            /\ pc # "raised"

C2_Witness ==
    \E p \in DOMAIN products :
        Finished(p) /\ ~MultiRegion(p) /\ AllFetchesFailed(p) /\ pc = "done"

\* every pair of every product has been scraped
AllAttempted ==
    \A p \in DOMAIN products : \A r \in PairsOf(p) : Events(p, r) # {}

\* C3: no failure of one product or region aborts the run: once the loop over
\* the products has begun the end-of-run summary is reached, and by then every
\* region of every product has been attempted.
C3_NeverAborts ==
    /\ [](pc = "done" => AllAttempted)
    /\ [](pc = "product" => <>(pc = "done"))

\* a run that met a fetch failure, a parse failure, a rejected push and an
\* exception, and reached the summary
C3_Witness ==
    /\ pc = "done"
    /\ \E k \in DOMAIN events : events[k].kind = "fetch_failed"
    /\ \E k \in DOMAIN events : events[k].kind = "raised"
    /\ \E k \in DOMAIN pushed : ~pushed[k].accepted
    /\ \E k \in DOMAIN pushed : ~pushed[k].success /\ pushed[k].r > 0

\* C4: an observation handed to persistence with success = true has a numeric
\* amount and a non-empty currency code.
C4_SuccessHasAmountAndCurrency ==
    \A k \in DOMAIN pushed :
        pushed[k].success =>
            /\ pushed[k].amount.mant \in Nat
            /\ pushed[k].currency # <<>>

\* C5: an observation handed to persistence with success = false carries
\* amount 0 and a non-empty note.
C5_FailureHasZeroAmountAndNote ==
    \A k \in DOMAIN pushed :
        ~pushed[k].success =>
            /\ pushed[k].amount = Zero
            /\ ~IsNone(pushed[k].notes)
            /\ Val(pushed[k].notes) # ""

\* both kinds of failure observation have been handed over
C5_Witness ==
    /\ \E k \in DOMAIN pushed : ~pushed[k].success /\ pushed[k].notes = Some("Could not parse price")
    /\ \E k \in DOMAIN pushed : ~pushed[k].success /\ pushed[k].notes = Some(NoDataMessage)

\* a warning about product p is in the log and the failure count has counted
WarningLogged(p) ==
    /\ failure_count > 0
    /\ \E k \in DOMAIN log_lines :
         /\ log_lines[k].p = p
         /\ log_lines[k].kind # "ok"

\* C6: no failure is swallowed: a pair whose fetch, region switch or
\* extraction failed has a failure observation handed to persistence, or a
\* warning that is logged and counted.
C6_NoSilentFailure ==
    \A p \in DOMAIN products :
        Finished(p) =>
            \A k \in DOMAIN events :
                events[k].p = p /\ events[k].kind \in FailureKinds =>
                    \/ \E j \in ObsOf(p) :
                         ~pushed[j].success /\ pushed[j].r \in {0, events[k].r}
                    \/ WarningLogged(p)

\* C7: an exception raised while a pair is handled yields a failure
\* observation for that pair.
C7_ExceptionYieldsFailureObservation ==
    \A p \in DOMAIN products :
        Finished(p) =>
            \A k \in DOMAIN events :
                events[k].p = p /\ events[k].kind = "raised" =>
                    \E j \in ObsOfPair(p, events[k].r) : ~pushed[j].success

\* observation a comes before b in product-then-region configuration order
Before(a, b) == a.p < b.p \/ (a.p = b.p /\ a.r < b.r)

\* C8: the observations are handed to persistence in product-then-region
\* configuration order.
C8_ConfigurationOrder ==
    \A j, k \in DOMAIN pushed : j < k => Before(pushed[j], pushed[k])

\* two regions of one product, then a later product
C8_Witness ==
    \E j, k, l \in DOMAIN pushed :
        /\ j < k /\ k < l
        /\ pushed[j].p = pushed[k].p /\ pushed[j].r < pushed[k].r
        /\ pushed[k].p < pushed[l].p

\* observation k is for a region token that resolved to no page id
Unresolved(k) == pushed[k].r > 0 /\ IsNone(ResolvedRegion(pushed[k].p, pushed[k].r))

\* C9: an unresolved region token does not block the observation, which is
\* handed over with a null region, and the event is counted apart from the
\* successes.
C9_UnresolvedCountedSeparately ==
    /\ \A p \in DOMAIN products :
         Finished(p) =>
             \A k \in DOMAIN events :
                 events[k].p = p /\ events[k].kind = "data" => ObsOfPair(p, events[k].r) # {}
    /\ \A k \in DOMAIN pushed : Unresolved(k) => IsNone(pushed[k].region_page_id)
    /\ success_count <= Cardinality({k \in DOMAIN pushed : pushed[k].success /\ ~Unresolved(k)})

\* the calls of push_price_data that raised
Rejected == {k \in DOMAIN pushed : ~pushed[k].accepted}

RejectionLines ==
    {k \in DOMAIN log_lines :
        log_lines[k].kind \in {"Failed to log error to Notion", "Failed to log to Notion",
                               "Notion push failed"}}

\* C10: a push that raises is logged and counted, and the run goes on: every
\* data item scraped is still handed to persistence, and at the summary every
\* pair of every product has been attempted.
C10_RejectedPushDoesNotHalt ==
    /\ Cardinality(RejectionLines) = Cardinality(Rejected)
    /\ failure_count =
         Cardinality({k \in DOMAIN pushed : ~pushed[k].success \/ ~pushed[k].accepted})
         + Cardinality({k \in DOMAIN log_lines : log_lines[k].kind = "exception"})
    /\ \A p \in DOMAIN products :
         Finished(p) =>
             \A k \in DOMAIN events :
                 events[k].p = p /\ events[k].kind = "data" => ObsOfPair(p, events[k].r) # {}
    /\ (pc = "done" => AllAttempted)

\* a push raised, and later observations of the same product and of the next
\* product were handed over
C10_Witness ==
    \E k, j, l \in DOMAIN pushed :
        /\ ~pushed[k].accepted
        /\ k < j /\ pushed[j].p = pushed[k].p
        /\ j < l /\ pushed[l].p > pushed[k].p

\* C11: when an operator interrupt ends the run, the log lines accumulated so
\* far have been written to the run log.
C11_InterruptFlushesLog ==
    pc = "interrupted" /\ log_lines # <<>> =>
        /\ ~IsNone(log_file)
        /\ Val(log_file) = log_lines

\* 12.99
TwelveNinetyNine == [neg |-> FALSE, mant |-> 1299, scale |-> 2]

\* C12: a product without region switching (type none or no region tokens) is
\* scraped exactly once, without a region; when the page was fetched exactly
\* one observation is handed over, with success = true when its price text
\* parses; the page "$12.99" / "/month" gives amount 12.99, currency USD and a
\* period containing "month".
C12_SingleUngeotargetedScrape ==
    /\ \A p \in DOMAIN products :
         Finished(p) /\ ~MultiRegion(p) =>
             /\ \A k \in DOMAIN events : events[k].p = p => events[k].r = 0
             /\ Cardinality(Events(p, 0)) = 1
             /\ \A k \in Events(p, 0) :
                  events[k].kind = "data" =>
                      /\ Cardinality(ObsOf(p)) = 1
                      /\ \A j \in ObsOf(p) :
                           \E page \in site_pages, accepted \in BOOLEAN :
                               LET data == Data(page, TRUE, None, 0, has_pandas)
                               IN  pushed[j] = IF IsNone(data.amount)
                                               THEN ParseFailurePush(p, data, None, accepted)
                                               ELSE SuccessPush(p, data, None, accepted)
    /\ PricedPage \in site_pages =>
         LET data == Data(PricedPage, TRUE, None, 0, has_pandas)
         IN  /\ data.amount = Some(TwelveNinetyNine)
             /\ data.currency = USD
             /\ HasSubstring(data.period, <<"m", "o", "n", "t", "h">>)

\* a product of type none and a product with an empty region list have each
\* handed over the observation 12.99 USD
C12_Witness ==
    \E p, q \in DOMAIN products :
        /\ Finished(p) /\ Finished(q)
        /\ products[p].region_config.type = "none"
        /\ products[q].region_config.type # "none" /\ products[q].region_config.regions = <<>>
        /\ \E j \in ObsOf(p) : pushed[j].success /\ pushed[j].amount = TwelveNinetyNine
        /\ \E j \in ObsOf(q) : pushed[j].success /\ pushed[j].currency = USD

\* the region token of observation k, stripped and lowercased
TokenOf(k) == Lower(Strip(products[pushed[k].p].region_config.regions[pushed[k].r]))

\* the canonical code the override table is to give each of its tokens
OverrideTarget(tok) ==
    CASE tok = <<"u", "k">> -> <<"G", "B">>
      [] tok = <<"a", "f", "r", "i", "c", "a">> -> <<"X", "F">>
      [] tok = <<"l", "a">> -> <<"X", "L">>
      [] tok \in {<<"c", "i", "s", "_", "e", "n">>, <<"c", "i", "s", "_", "r", "u">>} -> <<"C", "I", "S">>
      [] tok \in {<<"m", "e", "n", "a", "_", "a", "r">>, <<"m", "e", "n", "a", "_", "e", "n">>} -> <<"M", "E", "N", "A">>
      [] OTHER -> <<>>

C14_CanonicalCodeResolvesToItself ==
    \A k \in DOMAIN pushed :
        pushed[k].r > 0 =>
            LET token == products[pushed[k].p].region_config.regions[pushed[k].r]
            IN  token \in DOMAIN code_to_page_id =>
                    pushed[k].region_page_id = Some(code_to_page_id[token])

\* mant / 10^scale
Decimal(mant, scale) == Normalise([neg |-> FALSE, mant |-> mant, scale |-> scale])

\* the price texts of the two decimal conventions and their amounts
DecimalExamples ==
    {[raw |-> <<"1", "9", ",", "9", "9", " ", "euro">>, amount |-> Decimal(1999, 2)],
     [raw |-> <<"R", "$", " ", "9", "9", ",", "9", "0">>, amount |-> Decimal(9990, 2)],
     [raw |-> <<"1", ".", "2", "3", "4", ",", "5", "6">>, amount |-> Decimal(123456, 2)],
     [raw |-> <<"1", ",", "2", "3", "4", ".", "5", "6">>, amount |-> Decimal(123456, 2)],
     [raw |-> <<"$", "1", "2", ".", "9", "9">>, amount |-> Decimal(1299, 2)],
     [raw |-> <<"Z", "A", "R", " ", "3", "9", "9">>, amount |-> Decimal(399, 0)]}

\* C15: a comma followed by exactly two final digits is the decimal separator
\* and periods are then thousand separators; otherwise commas are thousand
\* separators and the period is the decimal separator: every data item
\* scraped from one of the example texts carries the example's amount.
C15_BothDecimalConventions ==
    \A j \in DOMAIN results :
        \A e \in DecimalExamples :
            results[j].price_raw = e.raw => results[j].amount = Some(e.amount)

\* s without a three-letter currency code at its start or end
WithoutCode(s) ==
    LET isCode(w) == Len(w) = 3 /\ \A k \in 1..3 : w[k] \in Range(UpperChars)
        n == Len(s)
    IN  IF n > 3 /\ isCode(SubSeq(s, 1, 3)) /\ ~IsWord(s[4]) THEN SubSeq(s, 4, n)
        ELSE IF n > 3 /\ isCode(SubSeq(s, n - 2, n)) /\ ~IsWord(s[n - 3]) THEN SubSeq(s, 1, n - 3)
        ELSE s

\* raw reduces to a number once currency symbols (the mark R$ among them),
\* currency codes and whitespace are stripped: digits and separators remain
ReducesToNumber(raw) ==
    LET marked == IF Len(raw) >= 2 /\ raw[1] = "R" /\ raw[2] = "$" THEN SubSeq(raw, 3, Len(raw)) ELSE raw
        rest == RemoveChars(WithoutCode(Strip(RemoveChars(marked, CurrencySymbols))), {" "})
    IN  /\ HasDigit(rest)
        /\ \A k \in DOMAIN rest : IsDigit(rest[k]) \/ rest[k] \in {",", "."}

\* C16: a price text that holds no digit, or that does not reduce to a number
\* once symbols, currency codes and whitespace are stripped, gives no amount,
\* with the digit-stripping fallback as well.
C16_NoNumberFromInvalidText ==
    \A j \in DOMAIN results :
        ~ReducesToNumber(results[j].price_raw) => IsNone(results[j].amount)

\* C19: when every attempt fails the fetch ladder has made exactly max_retries
\* attempts, raises the exception of the last attempt, and the caller gets that
\* failure: no page, and so no data, for the pair.
C19_ExactlyMaxRetriesThenLastError ==
    /\ attempt < max_retries
    /\ \A k \in DOMAIN events :
         events[k].kind = "fetch_failed" =>
             /\ events[k].n = max_retries
             /\ events[k].err = Some(max_retries - 1)
             /\ \A j \in DOMAIN events :
                  events[j].p = events[k].p /\ events[j].r = events[k].r => j = k
             /\ \A j \in ObsOfPair(events[k].p, events[k].r) : ~pushed[j].success

\* all attempts failed for a static page and for a page that needs rendering
C19_Witness ==
    \E k, j \in DOMAIN events :
        /\ events[k].kind = "fetch_failed" /\ products[events[k].p].rendering = "static"
        /\ events[j].kind = "fetch_failed" /\ products[events[j].p].rendering = "js"

\* the poll loop ran out of time on a page it still took for the challenge
ChallengeTimeout == waited >= max_wait(mode, visible) /\ is_cloudflare

\* C20: whenever the challenge wait reaches the maximum with the page still
\* classified as the challenge, the fetch returns failure (None) instead of
\* page content, in every fetcher that runs the poll loop
C20_ChallengeTimeoutReturnsFailure ==
    (cpc \in {"fetched", "emit", "done"} /\ mode \in PollingModes /\ ChallengeTimeout)
        => IsNone(html)

\* the mark of the Brazilian real
RealMark == <<"R", "$">>

\* the price text of the served page: what the selector tier reads or, when
\* that is empty, the text of the Plus section the pattern tier searches
PriceSource ==
    IF chat_page.price # <<>> THEN chat_page.price
    ELSE IF IsNone(chat_page.plus_section) THEN <<>>
    ELSE Val(chat_page.plus_section)

\* C17: a price text containing the mark "R$", with or without a space before
\* the digits, is classified BRL and never USD, on the selector path as well
\* as when the price text was obtained by the pattern tier
C17_RealMarkIsBRL ==
    \A k \in DOMAIN chat_pushed :
        HasSubstring(PriceSource, RealMark) => chat_pushed[k].currency = Code("B", "R", "L")

\* a text that parses to a price
ValidPrice(text) == ~IsNone(chat_parse_price(text))

\* scrape_region has a page whose price selector yields a valid price
SelectorYieldsPrice == ~IsNone(html) /\ cpc \in {"fetched", "emit", "done"} /\ ValidPrice(Served.price)

\* discover_for_product has a price selector whose test yields a valid price
DiscoveredSelectorYieldsPrice == selectors_price /\ ValidPrice(price_val)

\* C18: whenever a configured selector yields a valid price, the pattern
\* tier and the vision tier are not invoked at all: their call counts are zero
C18_SelectorTierFirst ==
    /\ SelectorYieldsPrice => pattern_calls = 0
    /\ DiscoveredSelectorYieldsPrice => vision_calls = 0

\* scrape_region pushed the selector's price of a page whose Plus section
\* would have given the pattern tier a price as well
C18_Witness ==
    /\ cpc = "done"
    /\ chat_result = Some(TRUE)
    /\ SelectorYieldsPrice
    /\ ~IsNone(Served.plus_section)
    /\ extract_price_from_html(Val(Served.plus_section)) # <<>>
    /\ Len(chat_pushed) = 1
    /\ pattern_calls = 0

\* a text the price parser turns into a positive number
ValidatedPrice(text) ==
    /\ ~IsNone(chat_parse_price(text))
    /\ ~Val(chat_parse_price(text)).neg
    /\ Val(chat_parse_price(text)).mant > 0

\* C26: a tier's output is accepted only if it parses to a finite positive
\* number: when the selector tier yields non-empty text that does not parse
\* to such a number (e.g. "Free"), the pattern tier is attempted next
C26_TiersGatedOnValidatedPrice ==
    (/\ cpc = "emit"
     /\ Served.price # <<>>
     /\ ~ValidatedPrice(Served.price)
     /\ ~IsNone(Served.plus_section))
        => pattern_calls >= 1

\* the most turns the poll loop of the fetcher in use can make
MaxPolls == max_wait(mode, visible) \div cf_wait_interval

\* the elapsed wait and the number of polls stay within max_wait
PollBounded ==
    /\ waited <= max_wait(mode, visible)
    /\ waited % cf_wait_interval = 0
    /\ polls <= MaxPolls
    /\ polls \in {waited \div cf_wait_interval, waited \div cf_wait_interval + 1}

\* C29: the challenge poll loop always terminates: it polls at a fixed
\* 2-second interval, makes at most max_wait / 2 polls, and the elapsed wait
\* it records never exceeds max_wait, whatever the page does
C29_PollLoopTerminates ==
    /\ []PollBounded
    /\ (cpc = "poll") ~> (cpc # "poll")

\* each fetcher's loop ran into its max_wait on a page that never settled
C29_Witness ==
    /\ cpc = "fetched"
    /\ mode \in PollingModes
    /\ challenge
    /\ waited = max_wait(mode, visible)
    /\ polls = MaxPolls

\* the visible patchright fetcher has just made a turn of its poll loop on
\* a page it classified as the challenge
InteractiveTurn ==
    /\ mode = "patchright"
    /\ visible
    /\ cpc = "poll"
    /\ waited > 0
    /\ is_cloudflare

\* s is the list of candidate selectors, or its beginning
InOrder(s) == Len(s) <= Len(TurnstileSelectors) /\ s = SubSeq(TurnstileSelectors, 1, Len(s))

\* C27 as stated: in visible mode the click is attempted once in every poll
\* cycle on a challenge page, until the page settles or the maximum wait is reached
C27_ClickEveryPollCycle == InteractiveTurn => attempted

\* C27 as amended: in visible mode the click is attempted once in every poll
\* cycle on a challenge page, the candidate selectors in order, until a click
\* has been delivered, the page settles or the maximum wait is reached
C27_ClickUntilDelivered ==
    InteractiveTurn =>
        /\ attempted \/ clicked_turnstile
        /\ InOrder(tried)
        /\ (attempted /\ clicked_turnstile /\ clicked_with # Some("widget area"))
               => (tried # <<>> /\ clicked_with = Some(tried[Len(tried)]))

\* a click landed on the last candidate selector and the next poll cycle, on
\* a page still showing the challenge, made no attempt
C27_Witness ==
    /\ InteractiveTurn
    /\ clicked_turnstile
    /\ clicked_with = Some(TurnstileSelectors[4])
    /\ ~attempted

\* C28: a page classified Blocked (an access-denied page) is terminal: the
\* fetch returns failure at once, never the blocked page as its result
C28_BlockedReturnsFailure ==
    (cpc \in {"fetched", "emit", "done"} /\ mode \in PollingModes /\ blocked /\ ~challenge)
        => IsNone(html)

\* the fetch is between attempts, or over
BetweenAttempts == lpc \in {"attempt", "returned", "raised"}

PolicyTiers == Append(Tiers, "stealth_proxy")

\* the smaller of two numbers
Least(a, b) == IF a <= b THEN a ELSE b

\* C22 as stated: attempt N, counted from 1, uses tier min(N, topTier) of
\* plain request < rendered browser < browser with stealth < stealth with
\* proxy, whatever max_retries and the rendering mode are
C22_AttemptNUsesTierN ==
    \A n \in 1..Len(tiers_used) : tiers_used[n] = PolicyTiers[Least(n, Len(PolicyTiers))]

\* C22 amended: of the three tiers plain request < rendered browser < browser
\* with stealth, attempt N uses tier min(N, 3) for a static page and tier
\* min(N + 1, 3) for a page that needs rendering
C22_TierByModeAndAttempt ==
    \A n \in 1..Len(tiers_used) :
        tiers_used[n] = Tiers[Least(IF fetch_use_js THEN n + 1 ELSE n, Len(Tiers))]

\* a fetch of a page that needs rendering has made its third attempt
C22_Witness == fetch_use_js /\ Len(tiers_used) = 3 /\ lpc = "browser"

\* C23: the ladder never returns as a success a page that is still an
\* anti-bot challenge
C23_NoChallengeReturned == lpc = "returned" => fetched # Some("challenge")

\* C24: a failed attempt k, counted from 0, that is not the last is followed
\* by a backoff of 2^k seconds before attempt k+1 starts: every attempt after
\* the first has its backoff behind it, and no backoff follows the last
\* failed attempt
C24_BackoffBetweenAttempts ==
    /\ \A j \in 1..Len(delays) : delays[j] = 2 ^ (j - 1)
    /\ lpc \in {"attempt", "request", "browser"} => Len(delays) = attempt
    /\ (lpc = "raised" /\ tiers_used # <<>>) =>
           /\ Len(tiers_used) = fetch_max_retries
           /\ Len(delays) = fetch_max_retries - 1

\* four attempts failed, with backoffs of 1, 2 and 4 seconds between them
C24_Witness == lpc = "raised" /\ Len(tiers_used) = 4 /\ delays = <<1, 2, 4>>

\* C25: the ladder returns the page of the first attempt that succeeds and
\* makes no attempt after it: once a fetcher has delivered a page the fetch
\* has returned, every earlier attempt failed, and for a static page whose
\* plain request succeeded no browser was ever started
C25_FirstSuccessReturned ==
    ~IsNone(fetched) =>
        /\ lpc = "returned"
        /\ Len(tiers_used) = attempt + 1
        /\ Len(delays) = attempt
        /\ (~fetch_use_js /\ attempt = 0) => (tiers_used = <<"requests">> /\ opened = 1)

\* the plain request of a static page succeeded at once
C25_Witness ==
    /\ lpc = "returned"
    /\ ~fetch_use_js
    /\ fetched = Some("content")
    /\ tiers_used = <<"requests">>

\* C30: between the end of a fetch and the start of the next fetch of the
\* run, of the next region or of the next product, a rate-limiting pause is
\* taken, also when the earlier fetch failed or raised
C30_PauseBetweenFetches == pc \in {"fetch", "interact"} => ~pause_due

\* a pair is being fetched or extracted
Scraping == pc \in {"fetch", "interact", "single_extract", "interaction_extract"}

\* the pairs that returned data, as (product, region) records
Extracted == {[p |-> events[k].p, r |-> events[k].r] : k \in {j \in DOMAIN events : events[j].kind = "data"}}

\* the pair has been handed to persistence
Emitted(pair) == ObsOfPair(pair.p, pair.r) # {}

RawTokenOf(k) == Strip(products[pushed[k].p].region_config.regions[pushed[k].r])

\* observation k has a region token that is no key of the override table
NoOverride(k) == pushed[k].r > 0 /\ OverrideTarget(TokenOf(k)) = <<>>

\* C32: a token outside the override table resolves by canonical code, then
\* alias, then heuristic: an uppercased token that is a canonical code gives
\* that code's page whatever the alias table holds for it; otherwise a
\* lowercased token that is an alias gives the alias's page; only then the
\* heuristic is asked, which gives a page of the code table or nothing, and
\* a token without a separator that is neither code nor alias gives nothing
C32_CodeThenAliasThenHeuristic ==
    \A k \in DOMAIN pushed :
        NoOverride(k) =>
            LET id == pushed[k].region_page_id
            IN  IF Upper(RawTokenOf(k)) \in DOMAIN code_to_page_id
                THEN id = Some(code_to_page_id[Upper(RawTokenOf(k))])
                ELSE IF TokenOf(k) \in DOMAIN alias_to_page_id
                THEN id = Some(alias_to_page_id[TokenOf(k)])
                ELSE IF Contains(TokenOf(k), "_")
                THEN IsNone(id) \/ Val(id) \in Range(code_to_page_id)
                ELSE IsNone(id)

\* "us" was tagged United States by tables whose alias "us" is the United Kingdom's
C32_Witness ==
    /\ pushed # <<>>
    /\ pushed[1].r > 0
    /\ TokenOf(1) = <<"u", "s">>
    /\ <<"u", "s">> \in DOMAIN alias_to_page_id
    /\ alias_to_page_id[<<"u", "s">>] = "page-GB"
    /\ pushed[1].region_page_id = Some("page-US")

\* observation k has a token with a separator that no override, canonical
\* code or alias matched
HeuristicCase(k) ==
    /\ NoOverride(k)
    /\ Contains(TokenOf(k), "_")
    /\ Upper(RawTokenOf(k)) \notin DOMAIN code_to_page_id
    /\ TokenOf(k) \notin DOMAIN alias_to_page_id

\* C33 as stated: the heuristic takes the prefix before the separator, of
\* whatever length, uppercases it and gives its page if it is a canonical
\* code and nothing otherwise
C33_PrefixBeforeSeparator ==
    \A k \in DOMAIN pushed :
        HeuristicCase(k) =>
            pushed[k].region_page_id = Get(code_to_page_id, PrefixBeforeSeparator(TokenOf(k)))

\* C33 amended: the heuristic takes the first two characters of the token,
\* uppercases them and gives their page if they are a canonical code and
\* nothing otherwise
C33_FirstTwoCharacters ==
    \A k \in DOMAIN pushed :
        HeuristicCase(k) =>
            pushed[k].region_page_id = Get(code_to_page_id, Upper(SubSeq(TokenOf(k), 1, 2)))

\* "mena_fr" was tagged Montenegro by tables that hold MENA as well
C33_Witness ==
    /\ pushed # <<>>
    /\ HeuristicCase(1)
    /\ TokenOf(1) = <<"m", "e", "n", "a", "_", "f", "r">>
    /\ <<"M", "E", "N", "A">> \in DOMAIN code_to_page_id
    /\ pushed[1].region_page_id = Some("page-ME")

\* C34: the region tables are loaded once per run and only read afterwards:
\* after the first load no pair makes the run read the cache file again,
\* fetch the Regions DB again or write the cache file again
C34_TablesLoadedOnce ==
    /\ cache_log.reads <= 1
    /\ cache_log.fetches <= 1
    /\ cache_log.writes <= 1

\* the regions of product p that returned data
DataRegions(p) == {r \in PairsOf(p) : \E k \in Events(p, r) : events[k].kind = "data"}

\* the product-level failure observations of product p
NoDataObs(p) ==
    {k \in ObsOf(p) : /\ pushed[k].r = 0
                       /\ pushed[k].amount = Zero
                       /\ ~pushed[k].success
                       /\ pushed[k].notes = Some(NoDataMessage)
                       /\ IsNone(pushed[k].region_page_id)}

\* C35: for a product with a non-empty region list, the product-level
\* failure observation (amount 0, note "No data extracted", no region) is
\* handed to persistence if and only if none of its regions returned data,
\* and when some did the calls of persistence for the product are as many
\* as the regions that returned data
C35_NoDataFailureIffNoRegion ==
    \A p \in DOMAIN products :
        Finished(p) /\ MultiRegion(p) =>
            /\ NoDataObs(p) # {} <=> DataRegions(p) = {}
            /\ DataRegions(p) # {} => Cardinality(ObsOf(p)) = Cardinality(DataRegions(p))

\* of two regions one returned data and was the only observation, and
\* another product got the failure observation
C35_Witness ==
    \E p, q \in DOMAIN products :
        /\ Finished(p) /\ MultiRegion(p)
        /\ Cardinality(PairsOf(p)) = 2
        /\ Cardinality(DataRegions(p)) = 1
        /\ Cardinality(ObsOf(p)) = 1
        /\ Finished(q) /\ MultiRegion(q)
        /\ NoDataObs(q) # {}

\* a float above zero
Positive(x) == ~x.neg /\ x.mant > 0

\* C36: every observation handed to persistence with success = true has a
\* strictly positive amount
C36_SuccessHasPositiveAmount ==
    \A k \in DOMAIN pushed : pushed[k].success => Positive(pushed[k].amount)

(***************************************************************************)
(* notion_client.push_price_data, lines 40-96                              *)
(***************************************************************************)
\* the calls of push_price_data one process makes
MaxCalls == 2

\* readings of datetime.utcnow()
Clock == 1..2

\* the properties dict of lines 76-90, for a call made at scraped_at; the
\* Product and Page Link of a call are those of its product
properties(call, scraped_at) ==
    [ScrapedTimestamp |-> scraped_at,
     Amount |-> call.amount,
     Product |-> Some(call.p),
     Currency |-> IF call.currency = <<>> THEN None ELSE Some(call.currency),
     Period |-> IF call.period = <<>> THEN None ELSE Some(call.period),
     PageLink |-> Some(call.p),
     RegionRelation |-> call.region_page_id]

\* one call of push_price_data with arguments of the caller's choice
NotionPush ==
    /\ Len(pushed) < MaxCalls
    /\ \E amount \in {Zero, Decimal(1299, 2)}, currency \in {<<>>, USD},
          period \in {<<>>, PerMonth}, success \in BOOLEAN,
          notes \in {None, Some("Could not parse price")},
          region_page_id \in {None, Some("page-US")}, accepted \in BOOLEAN :
          pushed' = Append(pushed, Push(1, 0, amount, currency, period, success, notes,
                                        region_page_id, accepted))
    /\ UNCHANGED <<inputs, spin_vars, chat_vars, ladder_vars, cache_vars, pc, i, ri, attempt, last_error,
                   results, idx, code_to_page_id, alias_to_page_id, success_count,
                   failure_count, log_lines, log_file, events, pause_due>>

NotionInit ==
    /\ products = <<>>
    /\ site_pages = {}
    /\ has_pandas = TRUE
    /\ has_playwright = TRUE
    /\ regions_db = {RegionsDB}
    /\ InitRun
    /\ SpinIdle
    /\ CacheStart({FALSE})
    /\ ChatIdle
    /\ LadderIdle

NotionNext == NotionPush

NotionSpec == NotionInit /\ [][NotionNext]_vars

\* two calls with the same arguments except success and notes, which differ
DifferOnlyInOutcome(a, b) ==
    /\ <<a.p, a.amount, a.currency, a.period, a.region_page_id>>
         = <<b.p, b.amount, b.currency, b.period, b.region_page_id>>
    /\ <<a.success, a.notes>> # <<b.success, b.notes>>

\* C37: the record push_price_data creates keeps the outcome: two calls that
\* differ only in success and notes, made at the same clock reading, create
\* records with different properties
C37_RecordKeepsOutcome ==
    \A k, l \in DOMAIN pushed :
        pushed[k].accepted /\ pushed[l].accepted /\ DifferOnlyInOutcome(pushed[k], pushed[l])
            => \A t \in Clock : properties(pushed[k], t) # properties(pushed[l], t)

\* fetch_page_with_patchright has returned None at line 325
PatchrightGaveUp ==
    mode = "patchright" /\ cpc = "fetched" /\ waited >= max_wait(mode, visible)

\* C38: fetch_page_with_patchright reports a challenge timeout only if the
\* page is still a challenge page when it gives up: a page that became normal
\* before the maximum wait elapsed, the last poll interval included, is not
\* returned as a failure
C38_TimeoutOnlyWhileChallenge == PatchrightGaveUp => challenge

(***************************************************************************)
(* progress.spinner, lines 43-75: the thread that enters the context       *)
(* manager and the thread that runs spin()                                 *)
(***************************************************************************)
\* len(chars), line 55
NumChars == 10

\* the writes to sys.stdout: a frame of spin() (line 62) or the clearing
\* line of the finally clause (line 74)
Frame(k) == [by |-> "spin", frame |-> k]

Clearing == [by |-> "spinner", frame |-> 0]

SpinnerInit ==
    /\ products = <<>>
    /\ site_pages = {}
    /\ has_pandas = TRUE
    /\ has_playwright = TRUE
    /\ regions_db = {RegionsDB}
    /\ InitRun
    /\ CacheStart({FALSE})
    /\ ChatIdle
    /\ LadderIdle
    /\ isatty \in BOOLEAN
    /\ spc = "enter"
    /\ SpinStart

spin_frame == <<inputs, run_vars, chat_vars, ladder_vars, cache_vars, isatty>>

\* lines 51-68: without a TTY the block runs bare; with one the thread is started
SpinEnter ==
    /\ spc = "enter"
    /\ spc' = "block"
    /\ tpc' = IF isatty THEN "check" ELSE "none"
    /\ UNCHANGED <<spin_frame, stop, spin_i, block_outcome, joined, last_write>>

\* line 52 or 70: the block under "with" returns or raises
SpinBlock ==
    /\ spc = "block"
    /\ block_outcome' \in {"returned", "raised"}
    /\ spc' = IF isatty THEN "stop" ELSE "finished"
    /\ UNCHANGED <<spin_frame, tpc, stop, spin_i, joined, last_write>>

\* line 72: stop.set()
SpinStop ==
    /\ spc = "stop"
    /\ stop' = TRUE
    /\ spc' = "join"
    /\ UNCHANGED <<spin_frame, tpc, spin_i, block_outcome, joined, last_write>>

\* line 73: t.join(timeout=0.5) returns when the thread has ended, or after
\* half a second whatever the thread is doing
SpinJoin ==
    /\ spc = "join"
    /\ joined' = IF tpc = "done" THEN "ended" ELSE "timeout"
    /\ spc' = "clear"
    /\ UNCHANGED <<spin_frame, tpc, stop, spin_i, block_outcome, last_write>>

\* lines 74-75: the clearing write and flush; the context manager has finished
SpinClear ==
    /\ spc = "clear"
    /\ last_write' = Some(Clearing)
    /\ spc' = "finished"
    /\ UNCHANGED <<spin_frame, tpc, stop, spin_i, block_outcome, joined>>

\* line 61: "while not stop.is_set()"
SpinCheck ==
    /\ tpc = "check"
    /\ tpc' = IF stop THEN "done" ELSE "write"
    /\ UNCHANGED <<spin_frame, spc, stop, spin_i, block_outcome, joined, last_write>>

\* lines 62-64: write the frame, flush, i += 1
SpinWrite ==
    /\ tpc = "write"
    /\ last_write' = Some(Frame(spin_i))
    /\ spin_i' = (spin_i + 1) % NumChars
    /\ tpc' = "wait"
    /\ UNCHANGED <<spin_frame, spc, stop, block_outcome, joined>>

\* line 65: stop.wait(0.08) returns when the event is set or the time is up
SpinWait ==
    /\ tpc = "wait"
    /\ tpc' = "check"
    /\ UNCHANGED <<spin_frame, spc, stop, spin_i, block_outcome, joined, last_write>>

\* the steps of the thread that entered the context manager, once the block has exited
SpinExit == SpinStop \/ SpinJoin \/ SpinClear

\* the steps of the thread that runs spin()
SpinThread == SpinCheck \/ SpinWrite \/ SpinWait

SpinnerNext ==
    \/ SpinEnter
    \/ SpinBlock
    \/ SpinStop
    \/ SpinJoin
    \/ SpinClear
    \/ SpinCheck
    \/ SpinWrite
    \/ SpinWait

SpinnerSpec == SpinnerInit /\ [][SpinnerNext]_vars

\* both threads are scheduled: neither waits forever while it can take a step
SpinnerLiveSpec == SpinnerInit /\ [][SpinnerNext]_vars /\ WF_vars(SpinExit) /\ WF_vars(SpinThread)

\* C39: with a TTY, once the context manager has finished, the last write to
\* stdout is its clearing line: the spinner thread writes nothing after it,
\* whether the block returned or raised and however the two threads interleave
C39_NoWriteAfterContextManager ==
    (isatty /\ spc = "finished") => last_write = Some(Clearing)

\* the other half of C39: once the block has exited, the spinner thread ends
SpinThreadEnds ==
    (isatty /\ spc \in {"stop", "join", "clear", "finished"}) ~> (tpc = "done")

====
